---- MODULE Spec2Model ----
(***************************************************************************)
(* A model of csctl's release pipeline: content fingerprints, version      *)
(* resolution per mode (hash / stable / custom), the change gate, release  *)
(* naming and publication, for the create and the publish command.         *)
(*                                                                         *)
(* Strings whose characters the code inspects (versions, digests, names)   *)
(* are sequences of one-character strings.                                 *)
(***************************************************************************)
EXTENDS Integers, Sequences, FiniteSets, TLC

VARIABLES
    tree,      \* the cluster stack directory (csctl.yaml and the subtrees)
    github,    \* releases on the GitHub remote: tag -> release assets
    oci,       \* artifacts in the OCI registry: tag -> release assets
    last,      \* what the last finished invocation did and returned
    hist,      \* cluster stack versions of the successful stable releases
    arg,       \* inputs of a function under check
    res,       \* its result
    running,   \* invocations under way at the same time: what each has done
    staging    \* whose templated output ./.tmp holds while they run (0: none)

vars == <<tree, github, oci, last, hist, arg, res, running, staging>>

----------------------------------------------------------------------------
(* Bounds of the model.                                                    *)

\* contents a subtree or file can have: 0 (absent) .. MaxContent
MaxContent == 1
\* releases the remotes hold together
MaxReleases == 2
\* contents a file has in the comparison of two fingerprints: 0 (absent) ..
\* MaxFileContent
MaxFileContent == 2
\* length of the version strings BumpVersion is applied to
MaxVersionLen == 3
\* greatest n of the versions v<n> BumpVersion is applied to
MaxMajor == 100

----------------------------------------------------------------------------
(* Strings.                                                                *)

Digits == <<"0", "1", "2", "3", "4", "5", "6", "7", "8", "9">>

IsDigit(c) == \E i \in 1..10 : Digits[i] = c

DigitVal(c) == (CHOOSE i \in 1..10 : Digits[i] = c) - 1

\* strconv.Itoa on a non-negative number
RECURSIVE Itoa(_)
Itoa(n) == IF n < 10 THEN <<Digits[n + 1]>>
           ELSE LET q == n \div 10
                IN  Itoa(q) \o <<Digits[(n % 10) + 1]>>

\* strconv.Atoi on a run of decimal digits (every run of the model is far
\* below the 64-bit range where Atoi reports an error)
RECURSIVE Atoi(_)
Atoi(s) == IF Len(s) = 0 THEN 0
           ELSE LET front == SubSeq(s, 1, Len(s) - 1)
                IN  10 * Atoi(front) + DigitVal(s[Len(s)])

\* strings.ReplaceAll(s, old, new) for a one-character old
RECURSIVE ReplaceChar(_, _, _)
ReplaceChar(s, old, new) ==
    IF s = <<>> THEN <<>>
    ELSE LET rest == Tail(s)
         IN  (IF Head(s) = old THEN new ELSE <<Head(s)>>) \o ReplaceChar(rest, old, new)

\* strings.Split(s, sep) for a one-character sep
RECURSIVE Split(_, _)
Split(s, sep) ==
    IF s = <<>> THEN << <<>> >>
    ELSE LET tail == Tail(s)
             rest == Split(tail, sep)
         IN  IF Head(s) = sep THEN << <<>> >> \o rest
             ELSE << <<Head(s)>> \o Head(rest) >> \o Tail(rest)

\* "v<n>"
V(n) == <<"v">> \o Itoa(n)

----------------------------------------------------------------------------
(* Version bumping.                                                        *)

HasDigit(s) == \E i \in 1..Len(s) : IsDigit(s[i])

\* the end of the maximal digit run that starts at i
RunEnd(s, i) == CHOOSE j \in i..Len(s) :
                    /\ \A k \in i..j : IsDigit(s[k])
                    /\ (j = Len(s) \/ ~IsDigit(s[j + 1]))

\* re.FindStringSubmatch(version)[1] for the expression (\d+): the leftmost
\* maximal run of digits
FirstDigitRun(s) ==
    LET i == CHOOSE k \in 1..Len(s) : IsDigit(s[k]) /\ \A j \in 1..(k - 1) : ~IsDigit(s[j])
    IN  SubSeq(s, i, RunEnd(s, i))

\* re.ReplaceAllString(version, rep) for the expression (\d+): every maximal
\* run of digits is replaced
RECURSIVE ReplaceAllDigitRuns(_, _, _)
ReplaceAllDigitRuns(s, i, rep) ==
    LET afterRun == RunEnd(s, i) + 1
        next == i + 1
    IN  IF i > Len(s) THEN <<>>
        ELSE IF IsDigit(s[i]) THEN rep \o ReplaceAllDigitRuns(s, afterRun, rep)
        ELSE <<s[i]>> \o ReplaceAllDigitRuns(s, next, rep)

\* a bump that reads the last digit of the run only
BumpVersionLastDigit(version) ==
    IF ~HasDigit(version)
    THEN [err |-> "invalid version format", version |-> <<>>]
    ELSE LET match == FirstDigitRun(version)
             lastDigit == SubSeq(match, Len(match), Len(match))
             newMajorString == Itoa(Atoi(lastDigit) + 1)
         IN  [err |-> "", version |-> ReplaceAllDigitRuns(version, 1, newMajorString)]

\* a BumpVersion that takes the empty version for v0
BumpVersionSeedsEmpty(version) ==
    IF version = <<>>
    THEN [err |-> "", version |-> V(1)]
    ELSE IF ~HasDigit(version)
    THEN [err |-> "invalid version format", version |-> <<>>]
    ELSE LET match == FirstDigitRun(version)
             currentMajor == Atoi(match)
             newMajor == currentMajor + 1
             newMajorString == Itoa(newMajor)
         IN  [err |-> "", version |-> ReplaceAllDigitRuns(version, 1, newMajorString)]

\* BumpVersion(version)
BumpVersion(version) ==
    IF ~HasDigit(version)
    THEN [err |-> "invalid version format", version |-> <<>>]
    ELSE LET match == FirstDigitRun(version)
             currentMajor == Atoi(match)
             newMajor == currentMajor + 1
             newMajorString == Itoa(newMajor)
         IN  [err |-> "", version |-> ReplaceAllDigitRuns(version, 1, newMajorString)]

----------------------------------------------------------------------------
(* Release metadata and its file.                                          *)

APIVersionTag == "metadata.clusterstack.x-k8s.io/v1alpha1"

\* a file that does not exist
NoFile == [absent |-> TRUE]

ZeroMetaData ==
    [apiVersion |-> "", kubernetes |-> <<>>, clusterStack |-> <<>>,
     clusterAddon |-> <<>>, nodeImage |-> <<>>]

\* yaml.Marshal of MetaData: nodeImage is omitempty
MarshalMetaData(m) ==
    IF m.nodeImage = <<>>
    THEN [apiVersion |-> m.apiVersion, kubernetes |-> m.kubernetes,
          clusterStack |-> m.clusterStack, clusterAddon |-> m.clusterAddon]
    ELSE [apiVersion |-> m.apiVersion, kubernetes |-> m.kubernetes,
          clusterStack |-> m.clusterStack, clusterAddon |-> m.clusterAddon,
          nodeImage |-> m.nodeImage]

\* yaml.Unmarshal into MetaData: a key the document lacks leaves the zero value
UnmarshalMetaData(doc) ==
    [apiVersion |-> IF "apiVersion" \in DOMAIN doc THEN doc.apiVersion ELSE "",
     kubernetes |-> IF "kubernetes" \in DOMAIN doc THEN doc.kubernetes ELSE <<>>,
     clusterStack |-> IF "clusterStack" \in DOMAIN doc THEN doc.clusterStack ELSE <<>>,
     clusterAddon |-> IF "clusterAddon" \in DOMAIN doc THEN doc.clusterAddon ELSE <<>>,
     nodeImage |-> IF "nodeImage" \in DOMAIN doc THEN doc.nodeImage ELSE <<>>]

\* ParseMetaData(path): metadata.yaml of the directory
ParseMetaData(dir) ==
    IF dir.metadata = NoFile
    THEN [err |-> "failed to read metadata file", metadata |-> ZeroMetaData]
    ELSE [err |-> "", metadata |-> UnmarshalMetaData(dir.metadata)]

----------------------------------------------------------------------------
(* Release hashes.                                                         *)

ZeroReleaseHash ==
    [ClusterStack |-> <<>>, ClusterAddonDir |-> <<>>,
     ClusterAddonValues |-> <<>>, NodeImageDir |-> <<>>]

\* strings.ToLower on the letters a digest can hold
ToLower(c) ==
    CASE c = "X" -> "x"
      [] c = "Z" -> "z"
      [] c = "S" -> "s"
      [] OTHER -> c

RECURSIVE MapLower(_)
MapLower(s) ==
    IF s = <<>> THEN <<>>
    ELSE LET rest == Tail(s) IN <<ToLower(Head(s))>> \o MapLower(rest)

\* strings.TrimPrefix(hash, "h1:")
TrimPrefixH1(s) ==
    IF Len(s) >= 3 /\ SubSeq(s, 1, 3) = <<"h", "1", ":">> THEN SubSeq(s, 4, Len(s)) ELSE s

clean(hash) ==
    LET trimmed == TrimPrefixH1(hash)
        noSlash == ReplaceChar(trimmed, "/", <<>>)
        noEquals == ReplaceChar(noSlash, "=", <<>>)
        noPlus == ReplaceChar(noEquals, "+", <<>>)
    IN  MapLower(noPlus)

\* the content of a list of files as characters, one per file; stands for
\* the bytes SHA-256 is taken of
RECURSIVE ContentChars(_)
ContentChars(files) ==
    IF files = <<>> THEN <<>>
    ELSE LET rest == Tail(files) IN <<Digits[Head(files) + 1]>> \o ContentChars(rest)

\* dirhash.HashDir(dir, "", dirhash.DefaultHash): "h1:" and the base64 text of
\* a SHA-256 sum; different contents give different sums
HashDir(files) ==
    <<"h", "1", ":">> \o ContentChars(files) \o <<"X", "/", "q", "+", "Z", "=">>

\* base64.StdEncoding.EncodeToString(sha256 of one file)
FileSum(content) == <<Digits[content + 1]>> \o <<"S", "+", "f", "=">>

\* every file of the stack directory, as HashDir of the whole directory sees them
AllFiles(t) == <<t.k8s, t.class, t.addon, t.values, t.node>>

\* a GetHash that takes the node image digest of both subtrees
GetHashNodeImageWithAddon(t) ==
    LET releaseHash == HashDir(AllFiles(t))
        clusterAddonHash == HashDir(<<t.addon>>)
        fileHash == FileSum(t.values)
        nodeImageHash == HashDir(<<t.addon, t.node>>)
    IN  [ClusterStack |-> clean(releaseHash),
         ClusterAddonDir |-> IF t.addon # 0 THEN clean(clusterAddonHash) ELSE <<>>,
         ClusterAddonValues |-> IF t.values # 0 THEN clean(fileHash) ELSE <<>>,
         NodeImageDir |-> IF t.node # 0 THEN clean(nodeImageHash) ELSE <<>>]

\* GetHash(path); content 0 is an absent subtree or file
GetHash(t) ==
    LET releaseHash == HashDir(AllFiles(t))
        clusterAddonHash == HashDir(<<t.addon>>)
        fileHash == FileSum(t.values)
        nodeImageHash == HashDir(<<t.node>>)
    IN  [ClusterStack |-> clean(releaseHash),
         ClusterAddonDir |-> IF t.addon # 0 THEN clean(clusterAddonHash) ELSE <<>>,
         ClusterAddonValues |-> IF t.values # 0 THEN clean(fileHash) ELSE <<>>,
         NodeImageDir |-> IF t.node # 0 THEN clean(nodeImageHash) ELSE <<>>]

\* ReleaseHash.GetClusterStackHash
GetClusterStackHash(r) == SubSeq(r.ClusterStack, 1, 7)

\* json.MarshalIndent of ReleaseHash: nodeImageDir is omitempty
MarshalReleaseHash(r) ==
    IF r.NodeImageDir = <<>>
    THEN [ClusterStack |-> r.ClusterStack, ClusterAddonDir |-> r.ClusterAddonDir,
          ClusterAddonValues |-> r.ClusterAddonValues]
    ELSE [ClusterStack |-> r.ClusterStack, ClusterAddonDir |-> r.ClusterAddonDir,
          ClusterAddonValues |-> r.ClusterAddonValues, NodeImageDir |-> r.NodeImageDir]

\* ParseReleaseHash(path): hashes.json of a downloaded release
ParseReleaseHash(dir) ==
    IF dir.hashes = NoFile
    THEN [err |-> "failed to read hash", hash |-> ZeroReleaseHash]
    ELSE LET doc == dir.hashes
         IN  [err |-> "",
              hash |-> [ClusterStack |-> doc.ClusterStack,
                        ClusterAddonDir |-> doc.ClusterAddonDir,
                        ClusterAddonValues |-> doc.ClusterAddonValues,
                        NodeImageDir |-> IF "NodeImageDir" \in DOMAIN doc
                                         THEN doc.NodeImageDir ELSE <<>>]]

\* a gate that looks at the whole-tree digest only
ValidateWholeTree(r, latestReleaseHash) ==
    IF r.ClusterStack = latestReleaseHash.ClusterStack
    THEN "no change in the cluster stack"
    ELSE ""

\* a gate that never looks at the latest release
ValidateWithEmptyHash(r, latestReleaseHash) ==
    IF /\ r.ClusterAddonDir = <<>>
       /\ r.ClusterAddonValues = <<>>
       /\ r.NodeImageDir = <<>>
    THEN "no change in the cluster stack"
    ELSE ""

\* a gate that lets everything pass when there is no latest release
ValidateAfterFirstRelease(r, latestReleaseHash) ==
    IF /\ latestReleaseHash.ClusterStack # <<>>
       /\ r.ClusterAddonDir = latestReleaseHash.ClusterAddonDir
       /\ r.ClusterAddonValues = latestReleaseHash.ClusterAddonValues
       /\ r.NodeImageDir = latestReleaseHash.NodeImageDir
    THEN "no change in the cluster stack"
    ELSE ""

\* ReleaseHash.ValidateWithLatestReleaseHash
ValidateWithLatestReleaseHash(r, latestReleaseHash) ==
    IF /\ r.ClusterAddonDir = latestReleaseHash.ClusterAddonDir
       /\ r.ClusterAddonValues = latestReleaseHash.ClusterAddonValues
       /\ r.NodeImageDir = latestReleaseHash.NodeImageDir
    THEN "no change in the cluster stack"
    ELSE ""

----------------------------------------------------------------------------
(* Mode resolution.                                                        *)

\* a change of the addon directory alone
AddonDirOnlyChanged(currentReleaseHash, latestReleaseHash) ==
    currentReleaseHash.ClusterAddonDir # latestReleaseHash.ClusterAddonDir

\* the condition under which HandleStableMode bumps the cluster addon version
ClusterAddonChanged(currentReleaseHash, latestReleaseHash) ==
    \/ currentReleaseHash.ClusterAddonDir # latestReleaseHash.ClusterAddonDir
    \/ currentReleaseHash.ClusterAddonValues # latestReleaseHash.ClusterAddonValues

\* a change of the node image directory or of the addon directory
NodeImageOrAddonChanged(currentReleaseHash, latestReleaseHash) ==
    \/ currentReleaseHash.NodeImageDir # latestReleaseHash.NodeImageDir
    \/ currentReleaseHash.ClusterAddonDir # latestReleaseHash.ClusterAddonDir

\* the condition under which HandleStableMode bumps the node image version
NodeImageChanged(currentReleaseHash, latestReleaseHash) ==
    currentReleaseHash.NodeImageDir # latestReleaseHash.NodeImageDir

\* the latest cluster stack version carried forward
KeepClusterStackVersion(version) == [err |-> "", version |-> version]

\* the latest cluster stack version bumped twice
BumpClusterStackVersionTwice(version) ==
    LET once == BumpVersion(version)
        bumped == once.version
    IN  IF once.err # "" THEN once ELSE BumpVersion(bumped)

\* the cluster stack version of a stable release, from the latest one
BumpClusterStackVersion(version) == BumpVersion(version)

\* HandleStableMode(gitHubReleasePath, currentReleaseHash, latestReleaseHash).
\* bumps counts the calls of BumpVersion.
HandleStableMode(dir, currentReleaseHash, latestReleaseHash) ==
    LET addonChanged == ClusterAddonChanged(currentReleaseHash, latestReleaseHash)
        nodeChanged == NodeImageChanged(currentReleaseHash, latestReleaseHash)
        fail(e, n) == [err |-> e, metadata |-> ZeroMetaData, bumps |-> n]
        Bumped(md, cs, ca, ni) ==
            IF cs.err # "" THEN fail("failed to bump cluster stack", 1)
            ELSE IF addonChanged /\ ca.err # "" THEN fail("failed to bump cluster addon", 2)
            ELSE IF nodeChanged /\ ni.err # ""
                 THEN fail("failed to bump node image", IF addonChanged THEN 3 ELSE 2)
            ELSE [err |-> "",
                  metadata |-> [md EXCEPT !.clusterStack = cs.version,
                                          !.clusterAddon = IF addonChanged THEN ca.version ELSE @,
                                          !.nodeImage = IF nodeChanged THEN ni.version ELSE @],
                  bumps |-> 1 + (IF addonChanged THEN 1 ELSE 0) + (IF nodeChanged THEN 1 ELSE 0)]
        Parsed(parsed) ==
            IF parsed.err # "" THEN fail("failed to parse metadata", 0)
            ELSE Bumped(parsed.metadata,
                        BumpClusterStackVersion(parsed.metadata.clusterStack),
                        BumpVersion(parsed.metadata.clusterAddon),
                        BumpVersion(parsed.metadata.nodeImage))
    IN  Parsed(ParseMetaData(dir))

\* HandleHashMode(kubernetesVersion); commitHash is git.GetLatestGitCommit("./")
HandleHashMode(kubernetesVersion, commitHash) ==
    LET v == <<"v", "0", "-", "s", "h", "a", ".">> \o commitHash
    IN  [err |-> "",
         metadata |-> [apiVersion |-> APIVersionTag, kubernetes |-> kubernetesVersion,
                       clusterStack |-> v, clusterAddon |-> v, nodeImage |-> v]]

\* HandleHashMode(currentReleaseHash, kubernetesVersion), the variant create.go
\* and the publish command call
HandleHashModeOfHash(currentReleaseHash, kubernetesVersion) ==
    LET v == <<"v", "0", "-", "s", "h", "a", ".">> \o GetClusterStackHash(currentReleaseHash)
    IN  [err |-> "",
         metadata |-> [apiVersion |-> APIVersionTag, kubernetes |-> kubernetesVersion,
                       clusterStack |-> v, clusterAddon |-> v, nodeImage |-> v]]

AllDigits(s) == Len(s) > 0 /\ \A i \in 1..Len(s) : IsDigit(s[i])

IsWord(s) ==
    Len(s) > 0 /\ \A i \in 1..Len(s) : s[i] \notin {"-", ".", "/", "=", "+", ":"}

\* version.New accepts v<digits> and v<digits>-<channel>.<token>
IsValidVersion(v) ==
    LET parts == Split(v, "-")
        major == Tail(parts[1])
        channelAndToken == parts[2]
        suffix == Split(channelAndToken, ".")
    IN  /\ Len(parts) \in {1, 2}
        /\ Len(parts[1]) >= 2
        /\ parts[1][1] = "v"
        /\ AllDigits(major)
        /\ Len(parts) = 2 => (Len(suffix) = 2 /\ IsWord(suffix[1]) /\ IsWord(suffix[2]))

\* version.New(v).String(): the number after the v is held as a number, the
\* channel and its token are joined by a dash: v1, v0-sha-7ff9188
VersionString(v) ==
    LET Printed(parts) ==
            V(Atoi(Tail(parts[1])))
                \o (IF Len(parts) = 2 THEN <<"-">> \o ReplaceChar(parts[2], ".", <<"-">>)
                    ELSE <<>>)
    IN  Printed(Split(v, "-"))

\* HandleCustomMode(kubernetesVersion, clusterStackVersion, clusterAddonVersion,
\* nodeImageVersion)
HandleCustomMode(kubernetesVersion, clusterStackVersion, clusterAddonVersion, nodeImageVersion) ==
    IF ~IsValidVersion(clusterStackVersion)
    THEN [err |-> "invalid cluster stack version", metadata |-> ZeroMetaData]
    ELSE IF ~IsValidVersion(clusterAddonVersion)
    THEN [err |-> "invalid cluster addon version", metadata |-> ZeroMetaData]
    ELSE IF ~IsValidVersion(nodeImageVersion)
    THEN [err |-> "invalid node image version", metadata |-> ZeroMetaData]
    ELSE [err |-> "",
          metadata |-> [apiVersion |-> APIVersionTag, kubernetes |-> kubernetesVersion,
                        clusterStack |-> clusterStackVersion,
                        clusterAddon |-> clusterAddonVersion,
                        nodeImage |-> nodeImageVersion]]

----------------------------------------------------------------------------
(* Configuration and release names.                                        *)

\* GetCsctlConfig(path): csctl.yaml of the stack directory
GetCsctlConfig(t) ==
    [providerType |-> <<"d", "o", "c", "k", "e", "r">>,
     clusterStackName |-> <<"f", "e", "r", "r", "o", "l">>,
     kubernetesVersion |-> <<"v", "1", ".", "2", "7", ".">> \o Itoa(t.k8s)]

\* strings.TrimPrefix(s, "v")
TrimPrefixV(s) == IF Len(s) >= 1 /\ s[1] = "v" THEN Tail(s) ELSE s

\* CsctlConfig.ParseKubernetesVersion
ParseKubernetesVersion(kubernetesVersion) ==
    LET splitted == Split(kubernetesVersion, ".")
        bad(e) == [err |-> e, major |-> 0, minor |-> 0]
        majorDigits == TrimPrefixV(splitted[1])
        minorDigits == splitted[2]
    IN  IF Len(splitted) # 3 THEN bad("invalid format")
        ELSE IF ~AllDigits(majorDigits) THEN bad("invalid major version")
        ELSE IF ~AllDigits(minorDigits) THEN bad("invalid minor version")
        ELSE [err |-> "", major |-> Atoi(majorDigits), minor |-> Atoi(minorDigits)]

\* strings.Join(parts, "-")
RECURSIVE JoinDash(_)
JoinDash(parts) ==
    IF Len(parts) = 0 THEN <<>>
    ELSE IF Len(parts) = 1 THEN parts[1]
    ELSE LET rest == Tail(parts) IN parts[1] \o <<"-">> \o JoinDash(rest)

\* a release directory name that carries the Kubernetes patch number
GetClusterStackReleaseDirectoryNameWithPatch(metadata, config) ==
    LET kubernetesVerion == ParseKubernetesVersion(config.kubernetesVersion)
        parts == <<config.providerType, config.clusterStackName,
                   Itoa(kubernetesVerion.major), Itoa(kubernetesVerion.minor),
                   Split(config.kubernetesVersion, ".")[3], VersionString(metadata.clusterStack)>>
    IN  IF ~IsValidVersion(metadata.clusterStack)
        THEN [err |-> "failed to parse cluster stack version", name |-> <<>>]
        ELSE IF kubernetesVerion.err # ""
        THEN [err |-> "failed to parse kubernetes version", name |-> <<>>]
        ELSE [err |-> "", name |-> JoinDash(parts)]

GetClusterStackReleaseDirectoryName(metadata, config) ==
    LET kubernetesVerion == ParseKubernetesVersion(config.kubernetesVersion)
        parts == <<config.providerType, config.clusterStackName,
                   Itoa(kubernetesVerion.major), Itoa(kubernetesVerion.minor),
                   VersionString(metadata.clusterStack)>>
    IN  IF ~IsValidVersion(metadata.clusterStack)
        THEN [err |-> "failed to parse cluster stack version", name |-> <<>>]
        ELSE IF kubernetesVerion.err # ""
        THEN [err |-> "failed to parse kubernetes version", name |-> <<>>]
        ELSE [err |-> "", name |-> JoinDash(parts)]

\* NewFromClusterStackReleaseProperties(tag):
\* <provider>-<name>-<major>-<minor>-<version>, stable when the version has
\* no channel
ClusterStackOfTag(tag) ==
    LET parts == Split(tag, "-")
        bad == [err |-> "invalid release tag", tag |-> tag, provider |-> <<>>, name |-> <<>>,
                major |-> 0, minor |-> 0, stable |-> FALSE, version |-> 0]
        version == Tail(parts[5])
    IN  IF Len(parts) \notin {5, 7} THEN bad
        ELSE IF ~AllDigits(parts[3]) \/ ~AllDigits(parts[4]) THEN bad
        ELSE IF ~(Len(parts[5]) >= 2 /\ parts[5][1] = "v" /\ AllDigits(version)) THEN bad
        ELSE [err |-> "", tag |-> tag, provider |-> parts[1], name |-> parts[2],
              major |-> Atoi(parts[3]), minor |-> Atoi(parts[4]),
              stable |-> (Len(parts) = 5), version |-> Atoi(version)]

\* matchesSpec(releaseTagName, mode, cs) for the stable channel, csObject
\* being the parsed tag and kubernetesVersion the parsed version of the
\* configuration
matchesSpec(csObject, kubernetesVersion, config) ==
    /\ csObject.err = ""
    /\ csObject.stable
    /\ csObject.major = kubernetesVersion.major
    /\ csObject.minor = kubernetesVersion.minor
    /\ csObject.name = config.clusterStackName
    /\ csObject.provider = config.providerType

\* getLatestReleaseFromRemoteRepository(ctx, mode, config, ac): the matching
\* release with the greatest version, the empty string when none matches
getLatestReleaseFromRemoteRepository(config, store) ==
    LET Latest(clusterStacks) ==
            IF clusterStacks = {} THEN [err |-> "", tag |-> <<>>]
            ELSE [err |-> "",
                  tag |-> (CHOOSE csObject \in clusterStacks :
                               \A other \in clusterStacks : other.version <= csObject.version).tag]
        Matching(csObjects, kubernetesVersion) ==
            IF \E csObject \in csObjects : csObject.err # ""
            THEN [err |-> "failed to get match release tag", tag |-> <<>>]
            ELSE Latest({csObject \in csObjects : matchesSpec(csObject, kubernetesVersion, config)})
    IN  Matching({ClusterStackOfTag(tag) : tag \in DOMAIN store},
                 ParseKubernetesVersion(config.kubernetesVersion))

----------------------------------------------------------------------------
(* The stack directory and the state after construction.                   *)

\* Kubernetes patch numbers csctl.yaml can name (v1.27.<patch>)
K8sPatches == {3, 7}

\* a stack directory: the Kubernetes patch number of csctl.yaml and the
\* content of cluster-class, cluster-addon, cluster-addon-values.yaml and
\* node-images
AllTrees ==
    [k8s : K8sPatches, class : 1..(MaxContent + 1), addon : 0..MaxContent,
     values : 0..MaxContent, node : 0..MaxContent]

InitTree == [k8s |-> 3, class |-> 1, addon |-> 1, values |-> 1, node |-> 0]

\* a stack with a cluster class only
BareTree == [k8s |-> 3, class |-> 1, addon |-> 0, values |-> 0, node |-> 0]

Differences(t, u) == Cardinality({f \in DOMAIN t : t[f] # u[f]})

\* the directories the pipeline is run on: the initial one, the ones that
\* differ from it in one place, and the bare one
Trees == {t \in AllTrees : Differences(t, InitTree) <= 1} \cup {BareTree}

\* nothing has run yet
NoResult == [err |-> "not run"]

\* no invocation has run, the remotes are empty
PipelineInit ==
    /\ tree = InitTree
    /\ github = <<>>
    /\ oci = <<>>
    /\ last = NoResult
    /\ hist = <<>>
    /\ running = <<>>
    /\ staging = 0

----------------------------------------------------------------------------
(* One invocation of a command.                                            *)

Modes == {"hash", "stable", "custom"}

\* the step of an invocation that fails for a reason outside the model (the
\* network, the file system, helm, the provider plugin)
Faults ==
    {"none", "download", "hashes", "generate", "package", "convention", "metadata",
     "plugin", "push"}

\* the steps of generateRelease before the push, each named by the fault that
\* fails it: hashes.json is written, the templates are generated and the
\* chart versions overwritten, the charts are packaged, the addon convention
\* file is copied, metadata.yaml is written, the provider plugin builds the
\* node images
GenerateSteps == <<"hashes", "generate", "package", "convention", "metadata", "plugin">>

\* the number of steps done when the fault strikes
StepsBefore(fault) == (CHOOSE k \in 1..Len(GenerateSteps) : GenerateSteps[k] = fault) - 1

FailsGeneration(fault) == \E k \in 1..Len(GenerateSteps) : GenerateSteps[k] = fault

NoVersionFlags == [clusterStack |-> <<>>, clusterAddon |-> <<>>, nodeImage |-> <<>>]

\* what the invocation before this one did, when it was a create in the same
\* mode on the same directory
NoPrior == [rerun |-> FALSE, name |-> <<>>, gate |-> ""]

Prior(cmd, flags, l) ==
    IF l = NoResult THEN NoPrior
    ELSE IF cmd # "create" \/ l.cmd # cmd \/ l.mode # flags.mode THEN NoPrior
    ELSE [rerun |-> TRUE, name |-> l.name, gate |-> l.gate]

\* an invocation that has done nothing yet
Started(cmd, flags, l) ==
    [cmd |-> cmd, mode |-> flags.mode, remote |-> flags.remote, publish |-> flags.publish,
     err |-> "", cur |-> ZeroReleaseHash, latest |-> ZeroReleaseHash,
     metadata |-> ZeroMetaData, name |-> <<>>, latestTag |-> <<>>,
     listed |-> FALSE, downloaded |-> FALSE, bumps |-> 0, gate |-> "not run",
     mkdir |-> FALSE, wrote |-> "nothing", pushed |-> FALSE, prior |-> Prior(cmd, flags, l),
     config |-> FALSE, done |-> 0, tmp |-> {}]

\* a first release whose cluster addon starts at v2
FirstReleaseAddonAhead(config) ==
    [apiVersion |-> APIVersionTag, kubernetes |-> config.kubernetesVersion,
     clusterStack |-> V(1), clusterAddon |-> V(2), nodeImage |-> V(1)]

\* a first release that takes its Kubernetes version from no configuration
FirstReleaseWithoutKubernetes(config) ==
    [apiVersion |-> APIVersionTag, kubernetes |-> <<>>,
     clusterStack |-> V(1), clusterAddon |-> V(1), nodeImage |-> V(1)]

\* the metadata of the first stable release of a stack
FirstReleaseMetaData(config) ==
    [apiVersion |-> APIVersionTag, kubernetes |-> config.kubernetesVersion,
     clusterStack |-> V(1), clusterAddon |-> V(1), nodeImage |-> V(1)]

\* downloadReleaseAssets(ctx, tag, path, ac): the assets of the release
downloadReleaseAssets(tag, store) == store[tag]

\* a failed download that leaves what it fetched
downloadReleaseAssetsFailedKeepsPath(tmp) == tmp \cup {"parent", "release"}

\* downloadReleaseAssets when the transfer fails: ./.tmp after the call. The
\* client had created the download path ("release") under its parent
\* directories ("parent"); the path is removed with all it holds
downloadReleaseAssetsFailed(tmp) == (tmp \cup {"parent", "release"}) \ {"release"}

\* the stable case of GetCreateOptions and of GetPublishOptions, store being
\* the remote the options list and download from
StableOptions(o, fault, config, store) ==
    LET Handled(got, latest, handled) ==
            IF handled.err # ""
            THEN [got EXCEPT !.latest = latest, !.bumps = handled.bumps,
                             !.err = "failed to handle stable mode"]
            ELSE [got EXCEPT !.latest = latest, !.bumps = handled.bumps,
                             !.metadata = [handled.metadata EXCEPT
                                              !.kubernetes = config.kubernetesVersion]]
        Downloaded(got, dir, parsedHash) ==
            IF parsedHash.err # ""
            THEN [got EXCEPT !.err = "failed to read hash from the github"]
            ELSE Handled(got, parsedHash.hash, HandleStableMode(dir, o.cur, parsedHash.hash))
        Listed(latestRepoRelease) ==
            IF latestRepoRelease.err # ""
            THEN [o EXCEPT !.err = "failed to get latest release from remote repository"]
            ELSE IF latestRepoRelease.tag = <<>>
            THEN [o EXCEPT !.listed = TRUE, !.metadata = FirstReleaseMetaData(config)]
            ELSE IF fault = "download"
            THEN [o EXCEPT !.listed = TRUE, !.latestTag = latestRepoRelease.tag,
                           !.tmp = downloadReleaseAssetsFailed(o.tmp),
                           !.err = "failed to download release asset"]
            ELSE Downloaded([o EXCEPT !.listed = TRUE, !.latestTag = latestRepoRelease.tag,
                                      !.tmp = o.tmp \cup {"parent", "release"},
                                      !.downloaded = TRUE],
                            downloadReleaseAssets(latestRepoRelease.tag, store),
                            ParseReleaseHash(downloadReleaseAssets(latestRepoRelease.tag, store)))
    IN  Listed(getLatestReleaseFromRemoteRepository(config, store))

\* a custom case that hands the flags to HandleCustomMode unchecked
CustomOptionsNoFlagCheck(o, versions, config) ==
    LET Handled(handled) ==
            IF handled.err # ""
            THEN [o EXCEPT !.err = "failed to handle custom mode: " \o handled.err]
            ELSE [o EXCEPT !.metadata = handled.metadata]
    IN  Handled(HandleCustomMode(config.kubernetesVersion, versions.clusterStack,
                                 versions.clusterAddon, versions.nodeImage))

\* the custom case of GetCreateOptions and of GetPublishOptions
CustomOptions(o, versions, config) ==
    LET Handled(handled) ==
            IF handled.err # ""
            THEN [o EXCEPT !.err = "failed to handle custom mode: " \o handled.err]
            ELSE [o EXCEPT !.metadata = handled.metadata]
    IN  IF versions.clusterStack = <<>>
        THEN [o EXCEPT !.err = "please specify --cluster-stack-version"]
        ELSE IF versions.clusterAddon = <<>>
        THEN [o EXCEPT !.err = "please specify --cluster-addon-version"]
        ELSE IF versions.nodeImage = <<>>
        THEN [o EXCEPT !.err = "please specify --node-image-version"]
        ELSE Handled(HandleCustomMode(config.kubernetesVersion, versions.clusterStack,
                                      versions.clusterAddon, versions.nodeImage))

\* the switch on the mode in GetCreateOptions and in GetPublishOptions, store
\* being the remote the options list and download from
ModeOptions(o, flags, fault, config, store) ==
    CASE flags.mode = "hash" ->
           [o EXCEPT !.metadata = HandleHashModeOfHash(o.cur, config.kubernetesVersion).metadata]
      [] flags.mode = "stable" -> StableOptions(o, fault, config, store)
      [] flags.mode = "custom" -> CustomOptions(o, flags.versions, config)

\* the end of GetCreateOptions and of GetPublishOptions: the release name
NamedOptions(o, config) ==
    LET Named(releaseDirName) ==
            IF releaseDirName.err # ""
            THEN [o EXCEPT !.err = "failed to get cluster stack release directory name"]
            ELSE [o EXCEPT !.name = releaseDirName.name]
    IN  IF o.err # "" THEN o
        ELSE Named(GetClusterStackReleaseDirectoryName(o.metadata, config))

\* GetCreateOptions; in the stable case the switch on the remote leaves
\* remoteFactory nil for a value other than github and oci, and the call of
\* remoteFactory.NewClient panics
GetCreateOptions(o, flags, fault, t, gh, oc) ==
    IF flags.mode = "stable" /\ flags.remote \notin {"github", "oci"}
    THEN [o EXCEPT !.config = TRUE, !.cur = GetHash(t),
                   !.err = "panic: invalid memory address or nil pointer dereference"]
    ELSE NamedOptions(ModeOptions([o EXCEPT !.config = TRUE, !.cur = GetHash(t)], flags, fault,
                                  GetCsctlConfig(t), IF flags.remote = "oci" THEN oc ELSE gh),
                      GetCsctlConfig(t))

\* ociclient.FoundRelease(ctx, releaseName)
FoundRelease(releaseName, oc) == releaseName \in DOMAIN oc

\* cleanTmpDirectory: os.RemoveAll("./.tmp/")
cleanTmpDirectory(o) == [o EXCEPT !.tmp = {}]

\* template.GenerateOutputFromTemplate in generateRelease: the templated
\* output is in ./.tmp once the step after hashes.json has run
GenerateOutputFromTemplate(o) ==
    IF o.done >= 1 THEN [o EXCEPT !.tmp = o.tmp \cup {"parent", "staged"}] ELSE o

\* a generateRelease that pushes before it writes the release
CreateGenerateReleasePushFirst(o, fault, oc) ==
    IF FailsGeneration(fault)
    THEN [o EXCEPT !.mkdir = TRUE, !.done = StepsBefore(fault),
                   !.wrote = IF StepsBefore(fault) = 0 THEN "nothing" ELSE "hashes.json",
                   !.pushed = o.publish /\ o.remote = "oci" /\ ~FoundRelease(o.name, oc),
                   !.err = "failed to generate release"]
    ELSE IF ~o.publish
    THEN [o EXCEPT !.mkdir = TRUE, !.done = Len(GenerateSteps), !.wrote = "all"]
    ELSE IF o.remote # "oci"
    THEN [o EXCEPT !.mkdir = TRUE, !.done = Len(GenerateSteps), !.wrote = "all",
                   !.err = "not pushing assets"]
    ELSE IF FoundRelease(o.name, oc)
    THEN [o EXCEPT !.mkdir = TRUE, !.done = Len(GenerateSteps), !.wrote = "all"]
    ELSE IF fault = "push"
    THEN [o EXCEPT !.mkdir = TRUE, !.done = Len(GenerateSteps), !.wrote = "all",
                   !.err = "failed to push release assets"]
    ELSE [o EXCEPT !.mkdir = TRUE, !.done = Len(GenerateSteps), !.wrote = "all",
                   !.pushed = TRUE]

\* CreateOptions.generateRelease
CreateGenerateRelease(o, fault, oc) ==
    IF FailsGeneration(fault)
    THEN [o EXCEPT !.mkdir = TRUE, !.done = StepsBefore(fault),
                   !.wrote = IF StepsBefore(fault) = 0 THEN "nothing" ELSE "hashes.json",
                   !.err = "failed to generate release"]
    ELSE IF ~o.publish
    THEN [o EXCEPT !.mkdir = TRUE, !.done = Len(GenerateSteps), !.wrote = "all"]
    ELSE IF o.remote # "oci"
    THEN [o EXCEPT !.mkdir = TRUE, !.done = Len(GenerateSteps), !.wrote = "all",
                   !.err = "not pushing assets"]
    ELSE IF FoundRelease(o.name, oc)
    THEN [o EXCEPT !.mkdir = TRUE, !.done = Len(GenerateSteps), !.wrote = "all"]
    ELSE IF fault = "push"
    THEN [o EXCEPT !.mkdir = TRUE, !.done = Len(GenerateSteps), !.wrote = "all",
                   !.err = "failed to push release assets"]
    ELSE [o EXCEPT !.mkdir = TRUE, !.done = Len(GenerateSteps), !.wrote = "all",
                   !.pushed = TRUE]

\* a gate of create that looks at the whole-tree digest, as the gate of
\* publish does
validateHashOfClusterStack(c) ==
    IF c.cur.ClusterStack = c.latest.ClusterStack
    THEN [c EXCEPT !.gate = "no change", !.err = "no change in the cluster stack"]
    ELSE [c EXCEPT !.gate = "passed"]

\* CreateOptions.validateHash: the gate of create
validateHash(c) ==
    LET err == ValidateWithLatestReleaseHash(c.cur, c.latest)
    IN  IF err # "" THEN [c EXCEPT !.gate = "no change", !.err = err]
        ELSE [c EXCEPT !.gate = "passed"]

\* a create that computes the fingerprint before it looks at the mode
createActionHashFirst(flags, fault, t, gh, oc, l) ==
    LET Validated(c) ==
            IF c.err # "" THEN c
            ELSE GenerateOutputFromTemplate(CreateGenerateRelease(c, fault, oc))
        Options(createOpts) ==
            IF createOpts.err # "" THEN createOpts ELSE Validated(validateHash(createOpts))
    IN  cleanTmpDirectory(
            IF flags.mode \notin Modes
            THEN [Started("create", flags, l) EXCEPT !.cur = GetHash(t),
                                                     !.err = "mode is not supported"]
            ELSE Options(GetCreateOptions(Started("create", flags, l), flags, fault, t, gh, oc)))

\* createAction: what one invocation of create does and returns
createAction(flags, fault, t, gh, oc, l) ==
    LET Validated(c) ==
            IF c.err # "" THEN c
            ELSE GenerateOutputFromTemplate(CreateGenerateRelease(c, fault, oc))
        Options(createOpts) ==
            IF createOpts.err # "" THEN createOpts ELSE Validated(validateHash(createOpts))
    IN  cleanTmpDirectory(
            IF flags.mode \notin Modes
            THEN [Started("create", flags, l) EXCEPT !.err = "mode is not supported"]
            ELSE Options(GetCreateOptions(Started("create", flags, l), flags, fault, t, gh, oc)))

GetPublishOptions(o, flags, fault, t, gh) ==
    LET Named(named) == IF named.err # "" THEN named ELSE [named EXCEPT !.mkdir = TRUE]
    IN  Named(NamedOptions(ModeOptions([o EXCEPT !.config = TRUE, !.cur = GetHash(t)], flags, fault,
                                       GetCsctlConfig(t), gh),
                           GetCsctlConfig(t)))

\* PublishOptions.generateRelease
PublishGenerateRelease(o, fault) ==
    IF FailsGeneration(fault)
    THEN [o EXCEPT !.done = StepsBefore(fault),
                   !.wrote = IF StepsBefore(fault) = 0 THEN "nothing" ELSE "hashes.json",
                   !.err = "failed to generate release"]
    ELSE IF fault = "push"
    THEN [o EXCEPT !.done = Len(GenerateSteps), !.wrote = "all",
                   !.err = "failed to push release assets"]
    ELSE [o EXCEPT !.done = Len(GenerateSteps), !.wrote = "all", !.pushed = TRUE]

\* PublishOptions.validateHash: the gate of publish
PublishValidateHash(p) ==
    IF p.cur.ClusterStack = p.latest.ClusterStack
    THEN [p EXCEPT !.gate = "no change", !.err = "no change in the cluster stack"]
    ELSE [p EXCEPT !.gate = "passed"]

\* publishAction: what one invocation of publish does and returns
publishAction(flags, fault, t, gh, l) ==
    LET Validated(p) ==
            IF p.err # "" THEN p
            ELSE GenerateOutputFromTemplate(PublishGenerateRelease(p, fault))
        Options(publishOpts) ==
            IF publishOpts.err # "" THEN publishOpts
            ELSE cleanTmpDirectory(Validated(PublishValidateHash(publishOpts)))
    IN  IF flags.mode \notin Modes
        THEN [Started("publish", flags, l) EXCEPT !.err = "mode is not supported"]
        ELSE Options(GetPublishOptions(Started("publish", flags, l), flags, fault, t, gh))

\* hashes.json and metadata.yaml of the release directory an invocation wrote
ReleaseFiles(out) ==
    [hashes |-> MarshalReleaseHash(out.cur),
     metadata |-> IF out.wrote = "all" THEN MarshalMetaData(out.metadata) ELSE NoFile]

\* pusher.PushReleaseAssets: the artifact is stored under the release name
PushReleaseAssets(out, oc) ==
    IF out.pushed THEN (out.name :> ReleaseFiles(out)) @@ oc ELSE oc

----------------------------------------------------------------------------
(* The stable pipeline: invocations in stable mode, edits of the stack and *)
(* GitHub releases.                                                        *)

\* the faults that can strike an invocation with these flags
FaultsOf(cmd, flags) ==
    {"none"}
        \cup (IF flags.mode = "stable" THEN {"download"} ELSE {})
        \cup (IF flags.mode \in Modes THEN {f \in Faults : FailsGeneration(f)} ELSE {})
        \cup (IF flags.mode \in Modes /\ flags.publish /\ (cmd = "publish" \/ flags.remote = "oci")
              THEN {"push"} ELSE {})

\* a release of the same stack for Kubernetes 1.26, which the registry
\* holds before the first invocation
OtherMinorTag ==
    <<"d", "o", "c", "k", "e", "r", "-", "f", "e", "r", "r", "o", "l", "-",
      "1", "-", "2", "6", "-", "v", "4">>

OtherMinorRelease ==
    [hashes |-> MarshalReleaseHash(GetHash(InitTree)),
     metadata |-> MarshalMetaData([apiVersion |-> APIVersionTag,
                                   kubernetes |-> <<"v", "1", ".", "2", "6", ".", "9">>,
                                   clusterStack |-> V(4), clusterAddon |-> V(2),
                                   nodeImage |-> V(3)])]

\* the releases the invocations and uploads have added to the remotes
Releases(gh, oc) ==
    Cardinality(DOMAIN gh \ {OtherMinorTag}) + Cardinality(DOMAIN oc \ {OtherMinorTag})

\* csctl create <stack directory>, with flags and a fault of the given sets
Create(flagSet, faultSet) ==
    \E flags \in flagSet : \E fault \in faultSet \cap FaultsOf("create", flags) :
        \E out \in {createAction(flags, fault, tree, github, oci, last)} :
            /\ last' = out
            /\ oci' = PushReleaseAssets(out, oci)
            /\ Releases(github, oci') <= MaxReleases
            /\ UNCHANGED <<tree, github, hist, arg, res, running, staging>>

\* csctl publish <stack directory>, with flags and a fault of the given sets
Publish(flagSet, faultSet) ==
    \E flags \in flagSet : \E fault \in faultSet \cap FaultsOf("publish", flags) :
        \E out \in {publishAction(flags, fault, tree, github, last)} :
            /\ last' = out
            /\ oci' = PushReleaseAssets(out, oci)
            /\ Releases(github, oci') <= MaxReleases
            /\ UNCHANGED <<tree, github, hist, arg, res, running, staging>>

\* the stack directory is edited; what the last invocation returned is about
\* the directory as it was
EditTree ==
    /\ \E t \in Trees \ {tree} : tree' = t
    /\ last' = NoResult
    /\ UNCHANGED <<github, oci, hist, arg, res, running, staging>>

\* the release the last create left in the output directory is uploaded as a
\* GitHub release under its name
GithubRelease ==
    /\ last # NoResult
    /\ last.cmd = "create"
    /\ last.err = ""
    /\ last.name \notin DOMAIN github
    /\ github' = (last.name :> ReleaseFiles(last)) @@ github
    /\ Releases(github', oci) <= MaxReleases
    /\ UNCHANGED <<tree, oci, last, hist, arg, res, running, staging>>

Init ==
    /\ tree = InitTree
    /\ github = <<>>
    /\ oci = (OtherMinorTag :> OtherMinorRelease)
    /\ last = NoResult
    /\ hist = <<>>
    /\ running = <<>>
    /\ staging = 0
    /\ arg = NoResult
    /\ res = NoResult

StableCreateFlags ==
    {[mode |-> "stable", remote |-> "github", publish |-> FALSE, versions |-> NoVersionFlags],
     [mode |-> "stable", remote |-> "oci", publish |-> TRUE, versions |-> NoVersionFlags]}

StablePublishFlags ==
    [mode : {"stable"}, remote : {"github"}, publish : {TRUE}, versions : {NoVersionFlags}]

StableFaults == {"none", "download"}

Next ==
    \/ Create(StableCreateFlags, StableFaults)
    \/ Publish(StablePublishFlags, StableFaults)
    \/ EditTree
    \/ GithubRelease

Spec == Init /\ [][Next]_vars

\* the remote the last invocation listed and downloaded from
ListedRemote ==
    IF last.cmd = "create" /\ last.remote = "oci" THEN oci ELSE github

\* current and latest fingerprint agree on the three compared digests
ThreeAgree(cur, latest) ==
    /\ cur.ClusterAddonDir = latest.ClusterAddonDir
    /\ cur.ClusterAddonValues = latest.ClusterAddonValues
    /\ cur.NodeImageDir = latest.NodeImageDir

GateRan == last # NoResult /\ last.gate # "not run"

\* C4: for create and for publish, the change gate fails with 'no change'
\* exactly when the current and the latest fingerprint agree on the addon
\* directory digest, the addon values digest and the node image directory
\* digest; the whole-tree digest plays no part.
C4_GateComparesThreeDigests ==
    GateRan => (last.gate = "no change" <=> ThreeAgree(last.cur, last.latest))

\* publish went past the gate although only the cluster class had changed
\* since the latest release
C4_PublishGatePassedOnClassChange ==
    /\ GateRan
    /\ last.cmd = "publish"
    /\ last.downloaded
    /\ ThreeAgree(last.cur, last.latest)
    /\ last.cur.ClusterStack # last.latest.ClusterStack
    /\ last.gate = "passed"

\* C5: when the current and the latest fingerprint agree on the three
\* compared digests, the invocation returns an error and has not created
\* the release output directory.
C5_NoChangeNoOutputDirectory ==
    (GateRan /\ ThreeAgree(last.cur, last.latest)) => (last.err # "" /\ ~last.mkdir)

\* publish was refused with 'no change' after it had created the output
\* directory
C5_PublishRefusedAfterMkdir ==
    /\ GateRan
    /\ last.cmd = "publish"
    /\ last.cur = last.latest
    /\ last.err = "no change in the cluster stack"
    /\ last.mkdir

\* the latest release a stable create downloaded was generated from the
\* stack directory as it is now
LatestIsOfThisTree ==
    /\ last # NoResult
    /\ last.cmd = "create"
    /\ last.mode = "stable"
    /\ last.downloaded
    /\ ListedRemote[last.latestTag].hashes = MarshalReleaseHash(GetHash(tree))

\* C7: a stable create on the unmodified directory the latest published
\* release was generated from is refused with 'no change': nothing is
\* resolved into a release, no output directory is created, nothing is
\* pushed.
C7_StableRerunRefused ==
    LatestIsOfThisTree =>
        /\ last.err = "no change in the cluster stack"
        /\ last.gate = "no change"
        /\ ~last.mkdir
        /\ last.wrote = "nothing"
        /\ ~last.pushed

\* the create before generated the release, it was published, and the
\* create after it on the same directory was refused
C7_Witness ==
    /\ LatestIsOfThisTree
    /\ last.prior.rerun
    /\ last.prior.gate = "passed"
    /\ last.prior.name = last.latestTag
    /\ last.gate = "no change"

\* the listing of the last stable invocation returned no matching release
FirstRelease ==
    /\ last # NoResult
    /\ last.mode = "stable"
    /\ last.listed
    /\ last.latestTag = <<>>

\* no release of the remote matches the stack
NoMatchingRelease(store) ==
    \A tag \in DOMAIN store :
        LET csObject == ClusterStackOfTag(tag)
            kubernetesVersion == ParseKubernetesVersion(GetCsctlConfig(tree).kubernetesVersion)
        IN  ~matchesSpec(csObject, kubernetesVersion, GetCsctlConfig(tree))

\* C9: in stable mode, when the remote lists no release matching the stack,
\* the resolved metadata has cluster stack, addon and node image version v1,
\* the Kubernetes version of the configuration and the fixed apiVersion tag;
\* BumpVersion is not called and no release is downloaded.
C9_FirstStableReleaseIsV1 ==
    /\ FirstRelease =>
          /\ last.metadata = [apiVersion |-> APIVersionTag,
                              kubernetes |-> GetCsctlConfig(tree).kubernetesVersion,
                              clusterStack |-> V(1), clusterAddon |-> V(1),
                              nodeImage |-> V(1)]
          /\ last.bumps = 0
          /\ ~last.downloaded
          /\ last.latest = ZeroReleaseHash
    /\ ( /\ last # NoResult
         /\ last.mode = "stable"
         /\ NoMatchingRelease(ListedRemote) )
       => FirstRelease

\* the registry holds a release of another Kubernetes minor only, and the
\* first release of a stack on v1.27.7 was resolved
C9_Witness ==
    /\ FirstRelease
    /\ last.remote = "oci"
    /\ DOMAIN oci = {OtherMinorTag, last.name}
    /\ last.pushed
    /\ tree.k8s = 7
    /\ last.metadata.clusterStack = V(1)
    /\ last.metadata.kubernetes = <<"v", "1", ".", "2", "7", ".", "7">>

\* the first release of a stack through publish
C9_WitnessPublish ==
    /\ FirstRelease
    /\ last.cmd = "publish"
    /\ last.pushed
    /\ last.metadata.nodeImage = V(1)

----------------------------------------------------------------------------
(* Hash mode run again and again.                                          *)

HashCreateFlags ==
    {[mode |-> "hash", remote |-> "github", publish |-> FALSE, versions |-> NoVersionFlags],
     [mode |-> "hash", remote |-> "oci", publish |-> TRUE, versions |-> NoVersionFlags]}

HashFaults == {"none", "push"}

RerunNext ==
    \/ Create(HashCreateFlags, HashFaults)
    \/ EditTree

SpecRerun == Init /\ [][RerunNext]_vars

\* the last two invocations were create in hash mode on the same directory
HashRerun ==
    /\ last # NoResult
    /\ last.cmd = "create"
    /\ last.mode = "hash"
    /\ last.prior.rerun

\* the stack directory has no addon directory, no addon values file and no
\* node image directory
NothingToCompare == tree.addon = 0 /\ tree.values = 0 /\ tree.node = 0

----------------------------------------------------------------------------
(* A chain of stable releases into an empty registry.                      *)

\* releases of the chain
MaxChain == 3

ChainFlags ==
    [mode |-> "stable", remote |-> "oci", publish |-> TRUE, versions |-> NoVersionFlags]

ChainInit ==
    /\ PipelineInit
    /\ arg = NoResult
    /\ res = NoResult

\* csctl create -m stable --remote oci --publish; hist records the cluster
\* stack version of every release that was pushed
ChainRelease ==
    \E fault \in StableFaults :
        \E out \in {createAction(ChainFlags, fault, tree, github, oci, last)} :
            /\ last' = out
            /\ oci' = PushReleaseAssets(out, oci)
            /\ hist' = IF out.pushed THEN Append(hist, out.metadata.clusterStack) ELSE hist
            /\ Len(hist') <= MaxChain
            /\ UNCHANGED <<tree, github, arg, res, running, staging>>

ChainNext == ChainRelease \/ EditTree

SpecChain == ChainInit /\ [][ChainNext]_vars

\* the release name of the stack for a cluster stack version
ChainName(version) ==
    <<"d", "o", "c", "k", "e", "r", "-", "f", "e", "r", "r", "o", "l", "-",
      "1", "-", "2", "7", "-">> \o version

\* C8: from an empty registry, with every successful stable release
\* published before the next invocation, the k-th successful release has
\* cluster stack version v<k>: the first is v1, every later one is one more
\* than the latest published one, no version repeats.
C8_ChainVersions ==
    /\ \A k \in 1..Len(hist) : hist[k] = V(k)
    /\ DOMAIN oci = {ChainName(V(k)) : k \in 1..Len(hist)}
    /\ (last # NoResult /\ last.err = "") =>
          /\ last.pushed
          /\ last.metadata.clusterStack = V(Len(hist))
          /\ last.downloaded => last.latestTag = ChainName(V(Len(hist) - 1))

\* three releases were published one after the other
C8_Witness ==
    /\ Len(hist) = 3
    /\ hist[3] = V(3)
    /\ last # NoResult
    /\ last.pushed
    /\ last.latestTag = ChainName(V(2))

----------------------------------------------------------------------------
(* HandleStableMode on its own: every input of a bounded set.              *)

\* versions a previous release's metadata.yaml can carry
SampleVersions ==
    {V(1), V(9), V(10), <<"v", "1", "-", "b", "e", "t", "a", ".", "0">>, <<"v", "x">>}

SampleMetaData ==
    [apiVersion : {APIVersionTag}, kubernetes : {<<"v", "1", ".", "2", "7", ".", "3">>},
     clusterStack : SampleVersions, clusterAddon : SampleVersions,
     nodeImage : SampleVersions \cup {<<>>}]

\* fingerprints of the stack directories that differ in the compared subtrees
SampleHashes ==
    {GetHash(t) : t \in {u \in AllTrees : u.k8s = 3 /\ u.class = 1}}

StableInputs ==
    [dir : [metadata : {MarshalMetaData(m) : m \in SampleMetaData} \cup {NoFile},
            hashes : {NoFile}],
     cur : SampleHashes, latest : SampleHashes]

StableInit ==
    /\ PipelineInit
    /\ arg \in StableInputs
    /\ res = NoResult

ApplyHandleStableMode ==
    /\ res = NoResult
    /\ res' = HandleStableMode(arg.dir, arg.cur, arg.latest)
    /\ UNCHANGED <<tree, github, oci, last, hist, arg, running, staging>>

StableNext == ApplyHandleStableMode

SpecStable == StableInit /\ [][StableNext]_vars

\* the latest release's metadata as HandleStableMode reads it
ArgLatestMetaData == ParseMetaData(arg.dir).metadata

ArgAddonChanged ==
    \/ arg.cur.ClusterAddonDir # arg.latest.ClusterAddonDir
    \/ arg.cur.ClusterAddonValues # arg.latest.ClusterAddonValues

ArgNodeChanged == arg.cur.NodeImageDir # arg.latest.NodeImageDir

Resolved == res # NoResult /\ res.err = ""

\* C1: in stable mode with a previous release, the resolved addon version is
\* the bumped latest addon version exactly when the addon directory digest or
\* the addon values digest differs from the latest one, and is the latest
\* addon version unchanged otherwise ({v1,v1,v1} with only the addon
\* directory changed gives {v2,v2,v1}).
C1_AddonBumpedIffChanged ==
    Resolved =>
        /\ ArgAddonChanged =>
              /\ res.metadata.clusterAddon = BumpVersion(ArgLatestMetaData.clusterAddon).version
              /\ res.metadata.clusterAddon # ArgLatestMetaData.clusterAddon
        /\ ~ArgAddonChanged => res.metadata.clusterAddon = ArgLatestMetaData.clusterAddon
        /\ ( /\ ArgLatestMetaData.clusterStack = V(1)
             /\ ArgLatestMetaData.clusterAddon = V(1)
             /\ ArgLatestMetaData.nodeImage = V(1)
             /\ arg.cur.ClusterAddonDir # arg.latest.ClusterAddonDir
             /\ arg.cur.ClusterAddonValues = arg.latest.ClusterAddonValues
             /\ arg.cur.NodeImageDir = arg.latest.NodeImageDir )
           => /\ res.metadata.clusterStack = V(2)
              /\ res.metadata.clusterAddon = V(2)
              /\ res.metadata.nodeImage = V(1)

\* only the addon values file changed and the addon version was bumped
C1_Witness ==
    /\ Resolved
    /\ arg.cur.ClusterAddonDir = arg.latest.ClusterAddonDir
    /\ arg.cur.ClusterAddonValues # arg.latest.ClusterAddonValues
    /\ ArgLatestMetaData.clusterAddon = V(9)
    /\ res.metadata.clusterAddon = V(10)

\* C2: in stable mode with a previous release, the resolved cluster stack
\* version is the bumped latest cluster stack version for every pair of
\* fingerprints, whichever subtrees changed.
C2_ClusterStackAlwaysBumped ==
    Resolved =>
        /\ res.metadata.clusterStack = BumpVersion(ArgLatestMetaData.clusterStack).version
        /\ res.metadata.clusterStack # ArgLatestMetaData.clusterStack
        /\ \A n \in {1, 9, 10} :
              ArgLatestMetaData.clusterStack = V(n) => res.metadata.clusterStack = V(n + 1)

\* nothing changed and the cluster stack version was bumped all the same
C2_Witness ==
    /\ Resolved
    /\ ~ArgAddonChanged
    /\ ~ArgNodeChanged
    /\ ArgLatestMetaData.clusterStack = V(1)
    /\ res.metadata.clusterStack = V(2)

\* C3: in stable mode with a previous release, the resolved node image
\* version is the bumped latest one exactly when the node image directory
\* digest differs from the latest one and is carried forward otherwise; a
\* latest release without node image version whose node image digest did
\* not change resolves, with the version left empty.
C3_NodeImageBumpedIffChanged ==
    /\ Resolved =>
          /\ ArgNodeChanged =>
                /\ res.metadata.nodeImage = BumpVersion(ArgLatestMetaData.nodeImage).version
                /\ res.metadata.nodeImage # ArgLatestMetaData.nodeImage
          /\ ~ArgNodeChanged => res.metadata.nodeImage = ArgLatestMetaData.nodeImage
    /\ ( /\ res # NoResult
         /\ arg.dir.metadata # NoFile
         /\ ArgLatestMetaData.nodeImage = <<>>
         /\ ~ArgNodeChanged
         /\ HasDigit(ArgLatestMetaData.clusterStack)
         /\ ArgAddonChanged => HasDigit(ArgLatestMetaData.clusterAddon) )
       => res.err = "" /\ res.metadata.nodeImage = <<>>

\* a release without node image version was resolved and the version stayed empty
C3_Witness ==
    /\ Resolved
    /\ ArgLatestMetaData.nodeImage = <<>>
    /\ res.metadata.nodeImage = <<>>
    /\ ArgAddonChanged

\* the node image directory changed and its version went from v9 to v10
C3_WitnessBumped ==
    /\ Resolved
    /\ ArgNodeChanged
    /\ ArgLatestMetaData.nodeImage = V(9)
    /\ res.metadata.nodeImage = V(10)

----------------------------------------------------------------------------
(* HandleHashMode on its own.                                              *)

\* short hashes git.GetLatestGitCommit can return
Commits == {<<"7", "f", "f", "9", "1", "8", "8">>, <<"a", "3", "c", "0", "d", "9", "e">>}

HashInit ==
    /\ PipelineInit
    /\ arg \in [tree : AllTrees, commit : Commits]
    /\ res = NoResult

\* HandleHashMode(kubernetesVersion) of mode.go in a working directory whose
\* latest commit is arg.commit
ApplyHandleHashMode ==
    /\ res = NoResult
    /\ res' = HandleHashMode(GetCsctlConfig(arg.tree).kubernetesVersion, arg.commit)
    /\ UNCHANGED <<tree, github, oci, last, hist, arg, running, staging>>

\* HandleHashMode(currentReleaseHash, kubernetesVersion) as the commands call it
ApplyHandleHashModeOfHash ==
    /\ res = NoResult
    /\ res' = HandleHashModeOfHash(GetHash(arg.tree), GetCsctlConfig(arg.tree).kubernetesVersion)
    /\ UNCHANGED <<tree, github, oci, last, hist, arg, running, staging>>

HashNext == ApplyHandleHashMode \/ ApplyHandleHashModeOfHash

SpecHash == HashInit /\ [][HashNext]_vars

\* C10: in hash mode cluster stack, addon and node image version are all
\* 'v0-sha.' followed by the first 7 characters of the whole-tree digest of
\* the current fingerprint, whatever the git state.
C10_HashVersionFromFingerprint ==
    res # NoResult =>
        LET v == <<"v", "0", "-", "s", "h", "a", ".">> \o SubSeq(GetHash(arg.tree).ClusterStack, 1, 7)
        IN  /\ res.metadata.clusterStack = v
            /\ res.metadata.clusterAddon = v
            /\ res.metadata.nodeImage = v

\* HandleHashMode of mode.go resolved the versions from the git commit
C10_VersionFromCommit ==
    /\ res # NoResult
    /\ res.metadata.clusterStack = <<"v", "0", "-", "s", "h", "a", ".">> \o arg.commit
    /\ res.metadata.clusterStack #
          <<"v", "0", "-", "s", "h", "a", ".">> \o SubSeq(GetHash(arg.tree).ClusterStack, 1, 7)

----------------------------------------------------------------------------
(* BumpVersion on its own.                                                 *)

\* characters of the version strings: a letter, two digits and a separator
BumpAlphabet == {"v", "0", "9", "."}

\* versions with a channel suffix, as custom and hash mode produce them
ChannelVersions ==
    {<<"v", "3", "-", "b", "e", "t", "a", ".", "0">>,
     <<"v", "0", "-", "s", "h", "a", ".", "a", "b", "c", "1", "2", "3">>,
     <<"v", "1", "-", "a", "l", "p", "h", "a", ".", "0">>}

\* the strings BumpVersion is applied to
BumpInputs ==
    UNION {[1..n -> BumpAlphabet] : n \in 1..MaxVersionLen}
        \cup {V(n) : n \in 0..MaxMajor}
        \cup ChannelVersions

BumpInit ==
    /\ PipelineInit
    /\ arg \in [version : BumpInputs]
    /\ res = NoResult

ApplyBumpVersion ==
    /\ res = NoResult
    /\ res' = BumpVersion(arg.version)
    /\ UNCHANGED <<tree, github, oci, last, hist, arg, running, staging>>

BumpNext == ApplyBumpVersion

SpecBump == BumpInit /\ [][BumpNext]_vars

\* the string with its first maximal digit run replaced by the run's value
\* plus one and every other character kept
FirstRunBumped(s) ==
    LET i == CHOOSE k \in 1..Len(s) : IsDigit(s[k]) /\ \A j \in 1..(k - 1) : ~IsDigit(s[j])
        j == RunEnd(s, i)
    IN  SubSeq(s, 1, i - 1) \o Itoa(Atoi(SubSeq(s, i, j)) + 1) \o SubSeq(s, j + 1, Len(s))

\* C11: for every version string with at least one digit, BumpVersion
\* succeeds and changes only the first maximal run of digits, which becomes
\* its value plus one; every other character, later digit runs included,
\* stays as it was.
C11_OnlyFirstRunChanged ==
    (res # NoResult /\ HasDigit(arg.version)) =>
        /\ res.err = ""
        /\ res.version = FirstRunBumped(arg.version)

\* 'v3-beta.0' became 'v4-beta.4': the later digit run was replaced as well
C11_LaterRunReplaced ==
    /\ res # NoResult
    /\ arg.version = <<"v", "3", "-", "b", "e", "t", "a", ".", "0">>
    /\ res.version = <<"v", "4", "-", "b", "e", "t", "a", ".", "4">>

\* C12: for every version v<n>, BumpVersion returns v<n+1> without error,
\* also when the number of digits grows (v9 -> v10, v99 -> v100).
C12_MajorBumped ==
    res # NoResult =>
        \A n \in 0..MaxMajor :
            arg.version = V(n) => res = [err |-> "", version |-> V(n + 1)]

\* v99 was bumped to v100
C12_Witness ==
    /\ res # NoResult
    /\ arg.version = <<"v", "9", "9">>
    /\ res.err = ""
    /\ res.version = <<"v", "1", "0", "0">>

----------------------------------------------------------------------------
(* Custom mode: create with the three version flags.                       *)

\* values of a version flag: unset, valid and malformed
CustomVersions ==
    {<<>>, V(1), V(2), <<"v", "1", "-", "b", "e", "t", "a", ".", "0">>, <<"v", "x">>}

CustomCreateFlags ==
    [mode : {"custom"}, remote : {"github"}, publish : {FALSE},
     versions : [clusterStack : CustomVersions, clusterAddon : CustomVersions,
                 nodeImage : CustomVersions]]

\* csctl create -m custom with the version flags; arg keeps the flags of
\* the invocation
CustomCreate ==
    \E flags \in CustomCreateFlags :
        \E out \in {createAction(flags, "none", tree, github, oci, NoResult)} :
            /\ last' = out
            /\ arg' = flags
            /\ oci' = PushReleaseAssets(out, oci)
            /\ UNCHANGED <<tree, github, hist, res, running, staging>>

CustomNext == CustomCreate \/ EditTree

SpecCustom == Init /\ [][CustomNext]_vars

\* the last invocation ran in custom mode
CustomRan == last # NoResult /\ arg # NoResult /\ last.mode = "custom"

\* the error of custom mode for the first flag that is unset, "" when all
\* are set
MissingFlagError(versions) ==
    IF versions.clusterStack = <<>> THEN "please specify --cluster-stack-version"
    ELSE IF versions.clusterAddon = <<>> THEN "please specify --cluster-addon-version"
    ELSE IF versions.nodeImage = <<>> THEN "please specify --node-image-version"
    ELSE ""

\* the error of custom mode for the first flag that is no valid version, ""
\* when all are valid
InvalidFlagError(versions) ==
    IF ~IsValidVersion(versions.clusterStack)
    THEN "failed to handle custom mode: invalid cluster stack version"
    ELSE IF ~IsValidVersion(versions.clusterAddon)
    THEN "failed to handle custom mode: invalid cluster addon version"
    ELSE IF ~IsValidVersion(versions.nodeImage)
    THEN "failed to handle custom mode: invalid node image version"
    ELSE ""

\* C13: in custom mode a missing or invalid version flag fails the
\* resolution with an error naming the field and produces no metadata; three
\* valid flags are carried into the metadata verbatim, with the Kubernetes
\* version of the configuration.
C13_CustomValidatesAndEchoes ==
    CustomRan =>
        IF MissingFlagError(arg.versions) # ""
        THEN last.err = MissingFlagError(arg.versions) /\ last.metadata = ZeroMetaData
        ELSE IF InvalidFlagError(arg.versions) # ""
        THEN last.err = InvalidFlagError(arg.versions) /\ last.metadata = ZeroMetaData
        ELSE last.metadata =
                 [apiVersion |-> APIVersionTag,
                  kubernetes |-> GetCsctlConfig(tree).kubernetesVersion,
                  clusterStack |-> arg.versions.clusterStack,
                  clusterAddon |-> arg.versions.clusterAddon,
                  nodeImage |-> arg.versions.nodeImage]

\* a malformed --cluster-addon-version next to two valid flags was refused
C13_Witness ==
    /\ CustomRan
    /\ arg.versions.clusterStack = V(1)
    /\ arg.versions.clusterAddon = <<"v", "x">>
    /\ arg.versions.nodeImage = V(2)
    /\ last.err = "failed to handle custom mode: invalid cluster addon version"
    /\ last.metadata = ZeroMetaData

\* three valid flags were released as they were given
C13_WitnessEcho ==
    /\ CustomRan
    /\ arg.versions.clusterStack = <<"v", "1", "-", "b", "e", "t", "a", ".", "0">>
    /\ arg.versions.clusterAddon = V(2)
    /\ arg.versions.nodeImage = V(1)
    /\ last.err = ""
    /\ last.wrote = "all"
    /\ last.metadata.clusterStack = <<"v", "1", "-", "b", "e", "t", "a", ".", "0">>

----------------------------------------------------------------------------
(* The mode flag: create with any value of --mode.                         *)

\* values of --mode: the three modes and values that are none of them
ModeValues == Modes \cup {"beta", ""}

\* create with the default remote, and create --remote oci --publish
AnyModeFlags ==
    [mode : ModeValues, remote : {"github"}, publish : {FALSE}, versions : {NoVersionFlags}]
        \cup [mode : ModeValues, remote : {"oci"}, publish : {TRUE},
              versions : {NoVersionFlags}]

ModeNext == Create(AnyModeFlags, {"none"}) \/ EditTree

SpecMode == Init /\ [][ModeNext]_vars

----------------------------------------------------------------------------
(* Releases that fail on the way: hash mode with a fault at any step.      *)

\* create --remote oci --publish and publish, in hash mode
StepCreateFlags ==
    {[mode |-> "hash", remote |-> "oci", publish |-> TRUE, versions |-> NoVersionFlags]}

StepPublishFlags ==
    {[mode |-> "hash", remote |-> "github", publish |-> TRUE, versions |-> NoVersionFlags]}

\* a fault at every step of generateRelease and at the push
StepFaults == {f \in Faults : f = "none" \/ FailsGeneration(f) \/ f = "push"}

StepNext ==
    \/ Create(StepCreateFlags, StepFaults)
    \/ Publish(StepPublishFlags, StepFaults)
    \/ EditTree

SpecSteps == Init /\ [][StepNext]_vars

\* C15: an invocation pushes only after hashes.json, the packages, the addon
\* convention file and metadata.yaml are written and the provider plugin has
\* succeeded; an invocation that fails at any step pushes nothing, and every
\* release in the registry is a complete one.
C15_PushOnlyAfterAllSteps ==
    /\ last # NoResult =>
          /\ last.pushed =>
                /\ last.done = Len(GenerateSteps)
                /\ last.wrote = "all"
                /\ last.gate = "passed"
                /\ last.err = ""
                /\ last.name \in DOMAIN oci
                /\ oci[last.name] = ReleaseFiles(last)
          /\ last.err # "" => ~last.pushed
          /\ last.done < Len(GenerateSteps) => ~last.pushed
    /\ \A tag \in DOMAIN oci : oci[tag].metadata # NoFile

\* the provider plugin failed after metadata.yaml was written: nothing was
\* pushed under the release name
C15_Witness ==
    /\ last # NoResult
    /\ last.publish
    /\ last.gate = "passed"
    /\ last.done = Len(GenerateSteps) - 1
    /\ last.err = "failed to generate release"
    /\ ~last.pushed
    /\ last.name \notin DOMAIN oci

\* a release was pushed after every step
C15_WitnessPushed ==
    /\ last # NoResult
    /\ last.cmd = "publish"
    /\ last.pushed
    /\ last.done = Len(GenerateSteps)

----------------------------------------------------------------------------
(* Tags of the registry under later invocations.                           *)

\* C16: every command that publishes checks whether the release tag exists
\* in the registry before pushing; an invocation whose tag exists pushes
\* nothing, so the content the registry holds under an existing tag is never
\* replaced by a later invocation, of create --publish or of publish.
C16_ExistingTagNeverOverwritten ==
    [][\A tag \in DOMAIN oci : tag \in DOMAIN oci' /\ oci'[tag] = oci[tag]]_vars

\* create --remote oci --publish never replaces what an existing tag holds
C16_CreateKeepsExistingTag ==
    [][(last' # NoResult /\ last'.cmd = "create") =>
           \A tag \in DOMAIN oci : tag \in DOMAIN oci' /\ oci'[tag] = oci[tag]]_vars

----------------------------------------------------------------------------
(* Two invocations of create --remote oci --publish under way at the same  *)
(* time, each on its own working copy of the stack, against one registry.  *)

Procs == {1, 2}

RaceFlags ==
    [mode |-> "stable", remote |-> "oci", publish |-> TRUE, versions |-> NoVersionFlags]

\* createAction up to the call of generateRelease: options and gate
ResolveAndValidate(t, gh, oc) ==
    LET Options(createOpts) ==
            IF createOpts.err # "" THEN createOpts ELSE validateHash(createOpts)
    IN  Options(GetCreateOptions(Started("create", RaceFlags, NoResult), RaceFlags, "none",
                                 t, gh, oc))

\* generateRelease up to the call of pushReleaseAssets
GeneratedRelease(o) ==
    [o EXCEPT !.mkdir = TRUE, !.done = Len(GenerateSteps), !.wrote = "all"]

\* an invocation that has not started, on the working copy t
Waiting(t) ==
    [pc |-> "start", tree |-> t, out |-> Started("create", RaceFlags, NoResult)]

RaceInit ==
    /\ tree = InitTree
    /\ github = <<>>
    /\ oci = (OtherMinorTag :> OtherMinorRelease)
    /\ last = NoResult
    /\ hist = <<>>
    /\ arg = NoResult
    /\ res = NoResult
    /\ running \in [Procs -> {Waiting(t) : t \in Trees}]
    /\ staging = 0

\* the invocation resolves its options, passes the gate and writes the
\* release directory
RaceResolve(p) ==
    /\ running[p].pc = "start"
    /\ \E o \in {ResolveAndValidate(running[p].tree, github, oci)} :
           running' = [running EXCEPT
                          ![p] = IF o.err # ""
                                 THEN [@ EXCEPT !.pc = "done", !.out = o]
                                 ELSE [@ EXCEPT !.pc = "check", !.out = GeneratedRelease(o)]]
    /\ UNCHANGED <<tree, github, oci, last, hist, arg, res, staging>>

\* pushReleaseAssets asks the registry for the tag and returns when it exists
RaceCheck(p) ==
    /\ running[p].pc = "check"
    /\ running' = [running EXCEPT
                      ![p].pc = IF FoundRelease(running[p].out.name, oci)
                                THEN "done" ELSE "push"]
    /\ UNCHANGED <<tree, github, oci, last, hist, arg, res, staging>>

\* pushReleaseAssets pushes the release directory under the tag
RacePush(p) ==
    /\ running[p].pc = "push"
    /\ \E out \in {[running[p].out EXCEPT !.pushed = TRUE]} :
           /\ running' = [running EXCEPT ![p] = [@ EXCEPT !.pc = "done", !.out = out]]
           /\ oci' = PushReleaseAssets(out, oci)
    /\ UNCHANGED <<tree, github, last, hist, arg, res, staging>>

RaceNext == \E p \in Procs : RaceResolve(p) \/ RaceCheck(p) \/ RacePush(p)

SpecRace == RaceInit /\ [][RaceNext]_vars

\* invocations p and q computed the same tag for different content
SameTagOtherContent(p, q) ==
    /\ p # q
    /\ running[p].out.wrote = "all"
    /\ running[q].out.wrote = "all"
    /\ running[p].out.name = running[q].out.name
    /\ ReleaseFiles(running[p].out) # ReleaseFiles(running[q].out)

\* C17: when two invocations under way at the same time computed the same
\* release tag with different content, at most one of them pushes to the
\* tag, under every interleaving of their existence checks and pushes.
C17_AtMostOnePushesATag ==
    \A p, q \in Procs :
        SameTagOtherContent(p, q) => ~(running[p].out.pushed /\ running[q].out.pushed)

\* both invocations pushed, and the tag holds what the second one pushed
C17_TagReplaced ==
    /\ SameTagOtherContent(1, 2)
    /\ running[1].out.pushed
    /\ running[2].out.pushed
    /\ oci[running[1].out.name] = ReleaseFiles(running[2].out)

----------------------------------------------------------------------------
(* The release name of an invocation.                                      *)

\* the invocation computed a release name
Named == last # NoResult /\ last.name # <<>>

\* docker-ferrol-1-27
NamePrefix ==
    <<"d", "o", "c", "k", "e", "r", "-", "f", "e", "r", "r", "o", "l", "-", "1", "-", "2", "7">>

\* C18 as stated: the release name is provider, stack name, Kubernetes major
\* and minor and the cluster stack version of the metadata, joined by
\* dashes.
C18_NameEndsWithVersion ==
    Named => last.name = NamePrefix \o <<"-">> \o last.metadata.clusterStack

\* C18: the release name is provider, stack name, Kubernetes major and minor
\* and the cluster stack version as version.Version prints it (v<number>,
\* and for a channel version v<number>-<channel>-<token>, the dot replaced
\* by a dash), joined by dashes; the Kubernetes patch number plays no part,
\* and a pushed release is stored in the registry under this name.
C18_NameOfPrintedVersion ==
    Named =>
        /\ last.name = NamePrefix \o <<"-">> \o VersionString(last.metadata.clusterStack)
        /\ last.metadata.kubernetes = GetCsctlConfig(tree).kubernetesVersion
        /\ last.pushed => (last.name \in DOMAIN oci /\ oci[last.name] = ReleaseFiles(last))

\* a stable create for Kubernetes v1.27.3 released v1 as docker-ferrol-1-27-v1
\* and pushed it under that tag
C18_Witness ==
    /\ Named
    /\ last.mode = "stable"
    /\ last.metadata.kubernetes = <<"v", "1", ".", "2", "7", ".", "3">>
    /\ last.metadata.clusterStack = V(1)
    /\ last.name = NamePrefix \o <<"-", "v", "1">>
    /\ last.pushed
    /\ last.name \in DOMAIN oci

\* a hash create for another patch release of Kubernetes 1.27 was named with
\* the dot of its version replaced
C18_WitnessHash ==
    /\ Named
    /\ last.mode = "hash"
    /\ last.metadata.kubernetes # <<"v", "1", ".", "2", "7", ".", "3">>
    /\ last.name # NamePrefix \o <<"-">> \o last.metadata.clusterStack
    /\ last.name = NamePrefix \o <<"-">> \o ReplaceChar(last.metadata.clusterStack, ".", <<"-">>)

----------------------------------------------------------------------------
(* Release names of two cluster stack versions under one configuration.    *)

\* the digits after the v
NameMajors == {<<"0">>, <<"1">>, <<"0", "1">>, <<"1", "0">>, <<"2">>}

\* no channel, and channels with a token
NameSuffixes ==
    {<<>>, <<"-", "s", "h", "a", ".", "a", "b", "c">>,
     <<"-", "s", "h", "a", ".", "a", "b", "d">>, <<"-", "b", "e", "t", "a", ".", "0">>,
     <<"-", "b", "e", "t", "a", ".", "1">>}

\* versions version.New accepts, and some it refuses
NameVersions ==
    {<<"v">> \o major \o suffix : major \in NameMajors, suffix \in NameSuffixes}
        \cup {<<>>, <<"v">>, <<"1">>, <<"v", "1", ".", "0">>, <<"v", "1", "-", "b", "e", "t", "a">>}

NameInit ==
    /\ PipelineInit
    /\ arg \in [a : NameVersions, b : NameVersions]
    /\ res = NoResult

\* the release names of the two versions, for the stack of InitTree
ApplyReleaseName ==
    /\ res = NoResult
    /\ res' = [a |-> GetClusterStackReleaseDirectoryName(
                         [ZeroMetaData EXCEPT !.clusterStack = arg.a], GetCsctlConfig(tree)),
               b |-> GetClusterStackReleaseDirectoryName(
                         [ZeroMetaData EXCEPT !.clusterStack = arg.b], GetCsctlConfig(tree))]
    /\ UNCHANGED <<tree, github, oci, last, hist, arg, running, staging>>

NameNext == ApplyReleaseName

SpecName == NameInit /\ [][NameNext]_vars

\* both versions were accepted and named
BothNamed == res # NoResult /\ res.a.err = "" /\ res.b.err = ""

\* C19: for a fixed stack configuration, any two valid, different cluster
\* stack versions produce different release names.
C19_NamingInjective ==
    (BothNamed /\ arg.a # arg.b) => res.a.name # res.b.name

\* v01 and v1 are both accepted and both named docker-ferrol-1-27-v1
C19_LeadingZeroCollision ==
    /\ BothNamed
    /\ arg.a = <<"v", "0", "1">>
    /\ arg.b = <<"v", "1">>
    /\ res.a.name = res.b.name

\* versions whose number is written without leading zeros
Canonical(v) == LET major == Tail(Split(v, "-")[1]) IN major = Itoa(Atoi(major))

\* different versions written without leading zeros have different names
C19_InjectiveOnCanonical ==
    (BothNamed /\ arg.a # arg.b /\ Canonical(arg.a) /\ Canonical(arg.b)) =>
        res.a.name # res.b.name

\* a stable version and a hash version were named differently
C19_StableAndHashNamed ==
    /\ BothNamed
    /\ arg.a = <<"v", "0">>
    /\ arg.b = <<"v", "0", "-", "s", "h", "a", ".", "a", "b", "c">>
    /\ res.a.name # res.b.name

----------------------------------------------------------------------------
(* Releases after a release whose metadata.yaml was written elsewhere: by  *)
(* hand, by another tool, or for a stack that builds no node images.       *)

\* docker-ferrol-1-27-v1
CarryTag ==
    <<"d", "o", "c", "k", "e", "r", "-", "f", "e", "r", "r", "o", "l", "-",
      "1", "-", "2", "7", "-", "v", "1">>

\* metadata.yaml of the release: the nodeImage key may be missing
\* (omitempty), the addon version may lack its v
CarryMetaData ==
    [apiVersion : {APIVersionTag}, kubernetes : {<<"v", "1", ".", "2", "7", ".", "3">>},
     clusterStack : {V(1)}, clusterAddon : {V(1), <<"1">>}, nodeImage : {V(1), <<>>}]

CarryInit ==
    /\ tree = InitTree
    /\ github \in {CarryTag :> [hashes |-> MarshalReleaseHash(GetHash(InitTree)),
                                metadata |-> MarshalMetaData(m)] : m \in CarryMetaData}
    /\ oci = <<>>
    /\ last = NoResult
    /\ hist = <<>>
    /\ arg = NoResult
    /\ res = NoResult
    /\ running = <<>>
    /\ staging = 0

\* create in each mode, custom with three valid versions
CarryFlags ==
    [mode : Modes, remote : {"github"}, publish : {FALSE},
     versions : {[clusterStack |-> V(2), clusterAddon |-> V(1), nodeImage |-> V(1)]}]

\* create in each mode and publish in stable mode, with and without a failing
\* download
CarryNext ==
    \/ Create(CarryFlags, StableFaults)
    \/ Publish(StablePublishFlags, StableFaults)
    \/ EditTree
    \/ GithubRelease

SpecCarry == CarryInit /\ [][CarryNext]_vars

\* the invocation wrote its release and returned without error
Finalized == last # NoResult /\ last.err = "" /\ last.wrote = "all"

C20_EmptyNodeImageReleased ==
    /\ Finalized
    /\ last.mode = "stable"
    /\ last.metadata.clusterStack = V(2)
    /\ last.metadata.nodeImage = <<>>

\* a stable create released v2 with an addon version that is no version
C20_MalformedAddonReleased ==
    /\ Finalized
    /\ last.mode = "stable"
    /\ last.metadata.clusterAddon \in {<<"1">>, <<"2">>}

\* the cluster stack version of every finalized release is valid
C20_ClusterStackVersionValid ==
    Finalized => IsValidVersion(last.metadata.clusterStack)

----------------------------------------------------------------------------
(* GetHash on its own: the fingerprints of two stack directories.          *)

\* stack directories with every combination of addon subtree, values file
\* and node image subtree
FingerprintTrees ==
    [k8s : {3}, class : {1}, addon : 0..MaxFileContent, values : 0..MaxFileContent,
     node : 0..MaxFileContent]

FingerprintInit ==
    /\ PipelineInit
    /\ arg \in [t : FingerprintTrees, u : FingerprintTrees]
    /\ res = NoResult

ApplyGetHash ==
    /\ res = NoResult
    /\ res' = [t |-> GetHash(arg.t), u |-> GetHash(arg.u)]
    /\ UNCHANGED <<tree, github, oci, last, hist, arg, running, staging>>

SpecFingerprint == FingerprintInit /\ [][ApplyGetHash]_vars

\* the two directories differ in the addon subtree and nowhere else
OnlyAddonDiffers ==
    /\ arg.t.addon # arg.u.addon
    /\ \A f \in DOMAIN arg.t \ {"addon"} : arg.t[f] = arg.u[f]

\* the digests of what a directory lacks are empty
AbsentIsEmpty(t, h) ==
    /\ t.addon = 0 => h.ClusterAddonDir = <<>>
    /\ t.values = 0 => h.ClusterAddonValues = <<>>
    /\ t.node = 0 => h.NodeImageDir = <<>>

\* C21: the fingerprints of two trees that differ only in the addon subtree
\* differ in the addon directory digest and in the whole-tree digest and
\* agree in the node image directory digest and the addon values digest; an
\* absent subtree or values file contributes the empty string.
C21_AddonChangeSensitivity ==
    res # NoResult =>
        /\ OnlyAddonDiffers =>
              /\ res.t.ClusterAddonDir # res.u.ClusterAddonDir
              /\ res.t.ClusterStack # res.u.ClusterStack
              /\ res.t.NodeImageDir = res.u.NodeImageDir
              /\ res.t.ClusterAddonValues = res.u.ClusterAddonValues
        /\ AbsentIsEmpty(arg.t, res.t)
        /\ AbsentIsEmpty(arg.u, res.u)

\* two directories with a node image subtree and no values file, whose addon
\* subtrees hold different content
C21_Witness ==
    /\ res # NoResult
    /\ OnlyAddonDiffers
    /\ arg.t.addon = 1
    /\ arg.u.addon = 2
    /\ arg.t.node = 1
    /\ arg.t.values = 0
    /\ res.t.ClusterAddonDir # <<>>
    /\ res.u.ClusterAddonDir # <<>>
    /\ res.t.ClusterAddonDir # res.u.ClusterAddonDir
    /\ res.t.NodeImageDir = res.u.NodeImageDir
    /\ res.t.NodeImageDir # <<>>
    /\ res.t.ClusterAddonValues = <<>>

----------------------------------------------------------------------------
(* The order of the stages of an invocation.                               *)

\* C22: every invocation passes the stages in the order fingerprint,
\* metadata, change gate, release name, finalization; no stage starts before
\* its predecessor has succeeded: metadata is resolved only of a computed
\* fingerprint, the gate runs only on resolved metadata, the release name
\* is derived only after the gate has passed, and the release is written
\* only under a derived name.
C22_StagesInOrder ==
    last # NoResult =>
        /\ last.metadata # ZeroMetaData => last.cur # ZeroReleaseHash
        /\ last.gate # "not run" => last.metadata # ZeroMetaData
        /\ last.name # <<>> => last.gate = "passed"
        /\ last.wrote # "nothing" => last.name # <<>>

\* an invocation the gate refused had derived its release name
C22_NamedBeforeGate ==
    /\ last # NoResult
    /\ last.gate = "no change"
    /\ last.name # <<>>
    /\ last.wrote = "nothing"

\* the stages other than the release name are passed in the stated order
C22_OtherStagesInOrder ==
    last # NoResult =>
        /\ last.metadata # ZeroMetaData => last.cur # ZeroReleaseHash
        /\ last.gate # "not run" => (last.metadata # ZeroMetaData /\ last.name # <<>>)
        /\ last.wrote # "nothing" => last.gate = "passed"

----------------------------------------------------------------------------
(* The staging directory ./.tmp when a command has returned.               *)

\* C23: once create or publish has returned - with success, with 'no
\* change' or with any error, errors of the option resolution after a
\* download included - the staging directory does not exist.
C23_StagingRemovedOnReturn ==
    last # NoResult => last.tmp = {}

\* publish returned an error of HandleStableMode and left the release it had
\* downloaded in the staging directory
C23_PublishLeftDownload ==
    /\ last # NoResult
    /\ last.cmd = "publish"
    /\ last.downloaded
    /\ last.err = "failed to handle stable mode"
    /\ "release" \in last.tmp

\* create leaves no staging directory, whatever it returns
C23_CreateRemovesStaging ==
    (last # NoResult /\ last.cmd = "create") => last.tmp = {}

\* publish leaves no staging directory once its options were resolved
C23_PublishRemovesStagingAfterOptions ==
    (last # NoResult /\ last.cmd = "publish" /\ last.gate # "not run") => last.tmp = {}

\* the download of the latest release failed
DownloadFailed ==
    /\ last # NoResult
    /\ last.listed
    /\ last.latestTag # <<>>
    /\ ~last.downloaded

----------------------------------------------------------------------------
(* Two invocations of create under way at the same time in one working     *)
(* directory, each for its own stack directory: they share ./.tmp.         *)

\* an invocation that has not started, for the stack directory t; packaged
\* tells whose templated output it packaged
StageWaiting(t) ==
    [pc |-> "start", tree |-> t, out |-> Started("create", RaceFlags, NoResult),
     packaged |-> "nothing"]

StageInit ==
    /\ tree = InitTree
    /\ github = <<>>
    /\ oci = (OtherMinorTag :> OtherMinorRelease)
    /\ last = NoResult
    /\ hist = <<>>
    /\ arg = NoResult
    /\ res = NoResult
    /\ running \in [Procs -> {StageWaiting(t) : t \in Trees}]
    /\ staging = 0

\* the invocation resolves its options, passes the gate and writes the
\* templated output of its stack into ./.tmp, over what is there
StageTemplate(p) ==
    /\ running[p].pc = "start"
    /\ \E o \in {ResolveAndValidate(running[p].tree, github, oci)} :
           IF o.err # ""
           THEN /\ running' = [running EXCEPT ![p] = [@ EXCEPT !.pc = "clean", !.out = o]]
                /\ UNCHANGED staging
           ELSE /\ running' = [running EXCEPT ![p] = [@ EXCEPT !.pc = "package", !.out = o]]
                /\ staging' = p
    /\ UNCHANGED <<tree, github, oci, last, hist, arg, res>>

\* template.CreatePackage packages what ./.tmp holds into the release
\* directory
StagePackage(p) ==
    /\ running[p].pc = "package"
    /\ running' =
           [running EXCEPT
               ![p] = IF staging = 0
                      THEN [@ EXCEPT !.pc = "clean", !.packaged = "missing",
                                     !.out = [@ EXCEPT !.mkdir = TRUE, !.done = 2,
                                                       !.wrote = "hashes.json",
                                                       !.err = "failed to generate release"]]
                      ELSE [@ EXCEPT !.pc = "clean",
                                     !.packaged = IF staging = p THEN "own" ELSE "other",
                                     !.out = GeneratedRelease(@)]]
    /\ UNCHANGED <<tree, github, oci, last, hist, arg, res, staging>>

\* the deferred cleanTmpDirectory of the returning invocation
StageClean(p) ==
    /\ running[p].pc = "clean"
    /\ running' = [running EXCEPT ![p].pc = "done"]
    /\ staging' = 0
    /\ UNCHANGED <<tree, github, oci, last, hist, arg, res>>

StageNext == \E p \in Procs : StageTemplate(p) \/ StagePackage(p) \/ StageClean(p)

SpecStage == StageInit /\ [][StageNext]_vars

\* C25: the staging directory is owned by one invocation at a time: under
\* every interleaving of two invocations in one working directory, an
\* invocation packages only the output it staged itself, and what it staged
\* is neither overwritten nor deleted by the other before it has packaged
\* it.
C25_StagingExclusive ==
    \A p \in Procs :
        /\ running[p].packaged \in {"nothing", "own"}
        /\ running[p].pc = "package" => staging = p

\* an invocation packaged the templated output of the other one and returned
\* without error
C25_PackagedOther ==
    \E p \in Procs :
        /\ running[p].pc = "done"
        /\ running[p].packaged = "other"
        /\ running[p].out.err = ""
        /\ running[p].tree # running[3 - p].tree

\* an invocation found its templated output removed by the cleanup of the
\* other one
C25_StagedRemoved ==
    \E p \in Procs : running[p].packaged = "missing"

----------------------------------------------------------------------------
(* The gate of create in stable mode after changes the gate does not look  *)
(* at.                                                                     *)

\* a stable create downloaded the latest release, and the stack differs from
\* it, but not in the addon directory, the addon values or the node images
ChangedOutsideOnly ==
    /\ last # NoResult
    /\ last.cmd = "create"
    /\ last.mode = "stable"
    /\ last.downloaded
    /\ last.err # "failed to handle stable mode"
    /\ last.cur.ClusterStack # last.latest.ClusterStack
    /\ ThreeAgree(last.cur, last.latest)

\* C26: a stable create on a stack that differs from the latest release only
\* outside the addon directory, the addon values file and the node image
\* directory is refused with 'no change' and generates no release, although
\* the whole-tree digest differs and version resolution had bumped the
\* cluster stack version.
C26_ClassChangeRefused ==
    ChangedOutsideOnly =>
        /\ last.err = "no change in the cluster stack"
        /\ last.gate = "no change"
        /\ ~last.mkdir
        /\ last.wrote = "nothing"
        /\ ~last.pushed
        /\ last.bumps = 1
        /\ last.metadata.clusterStack # ZeroMetaData.clusterStack
        /\ last.metadata.clusterStack
               # UnmarshalMetaData(ListedRemote[last.latestTag].metadata).clusterStack

\* only the cluster class was edited after v1 was released: v2 was resolved
\* and the create was refused
C26_Witness ==
    /\ ChangedOutsideOnly
    /\ tree.class # InitTree.class
    /\ last.latestTag = NamePrefix \o <<"-", "v", "1">>
    /\ last.metadata.clusterStack = V(2)
    /\ last.err = "no change in the cluster stack"

----------------------------------------------------------------------------
(* create in every mode, before and after the first release of a stack.    *)

\* create in each mode, with either remote, without --publish
GateFlags ==
    [mode : Modes, remote : {"github", "oci"}, publish : {FALSE},
     versions : {[clusterStack |-> V(2), clusterAddon |-> V(1), nodeImage |-> V(1)]}]

SpecGate == Init /\ [][Create(GateFlags, {"none"}) \/ EditTree \/ GithubRelease]_vars

\* the gate of a create ran and no latest release had been downloaded
GateWithoutLatest ==
    /\ last # NoResult
    /\ last.cmd = "create"
    /\ last.gate # "not run"
    /\ ~last.downloaded

\* the stack has an addon directory, an addon values file or node images
HasGatedPart(cur) ==
    \/ cur.ClusterAddonDir # <<>>
    \/ cur.ClusterAddonValues # <<>>
    \/ cur.NodeImageDir # <<>>

\* C27: when no latest fingerprint has been loaded - hash mode, custom mode,
\* the first stable release - the gate compares the current fingerprint
\* with the all-empty one: it passes exactly when the addon directory
\* digest, the addon values digest or the node image digest is not empty,
\* and a stack with none of the three is refused with 'no change'.
C27_GateAgainstEmptyFingerprint ==
    GateWithoutLatest =>
        /\ last.latest = ZeroReleaseHash
        /\ last.gate = "passed" <=> HasGatedPart(last.cur)
        /\ ~HasGatedPart(last.cur) =>
              /\ last.err = "no change in the cluster stack"
              /\ ~last.mkdir
              /\ last.wrote = "nothing"

\* the first stable release of a stack with a cluster class only was
\* refused, with v1 resolved
C27_Witness ==
    /\ GateWithoutLatest
    /\ tree = BareTree
    /\ last.mode = "stable"
    /\ last.metadata.clusterStack = V(1)
    /\ last.cur.ClusterStack # <<>>
    /\ last.err = "no change in the cluster stack"
    /\ github = <<>>

\* a create in hash mode and one in custom mode were refused the same way
C27_WitnessHash ==
    GateWithoutLatest /\ tree = BareTree /\ last.mode = "hash" /\ last.gate = "no change"

C27_WitnessCustom ==
    GateWithoutLatest /\ tree = BareTree /\ last.mode = "custom" /\ last.gate = "no change"

----------------------------------------------------------------------------
(* Node images added to a stack that was released without them.            *)

\* a stable invocation downloaded a latest release whose metadata.yaml has
\* no node image version, and the node image directory differs from that
\* release
NodeImagesAdded ==
    /\ last # NoResult
    /\ last.mode = "stable"
    /\ last.downloaded
    /\ UnmarshalMetaData(github[last.latestTag].metadata).nodeImage = <<>>
    /\ last.cur.NodeImageDir # last.latest.NodeImageDir

\* C28: in stable mode, when the latest release's metadata has an empty node
\* image version and the node image directory digest differs from the
\* latest one, version resolution returns the error of the node image bump
\* and no metadata: no initial node image version is seeded, and no release
\* is produced.
C28_NoSeedForNodeImage ==
    NodeImagesAdded =>
        /\ last.err = "failed to handle stable mode"
        /\ last.bumps = IF ClusterAddonChanged(last.cur, last.latest) THEN 3 ELSE 2
        /\ last.metadata = ZeroMetaData
        /\ last.name = <<>>
        /\ last.gate = "not run"
        /\ last.wrote = "nothing"
        /\ ~last.pushed

\* node images were added to the stack and create -m stable failed
C28_Witness ==
    /\ NodeImagesAdded
    /\ last.cmd = "create"
    /\ tree.node = 1
    /\ last.latestTag = CarryTag
    /\ last.err = "failed to handle stable mode"

----------------------------------------------------------------------------
(* The remote selector: create in stable mode with any value of --remote.  *)

\* the two remotes and a value that is neither
RemoteFlags ==
    [mode : {"stable"}, remote : {"github", "oci", "s3"}, publish : {FALSE},
     versions : {NoVersionFlags}]

SpecRemote ==
    Init /\ [][Create(RemoteFlags, StableFaults) \/ EditTree \/ GithubRelease]_vars

\* the process of the last invocation ended in a panic
Crashed ==
    /\ last # NoResult
    /\ last.err = "panic: invalid memory address or nil pointer dereference"

\* C29: in stable mode every value of the remote selector ends the
\* invocation with resolved metadata or with a returned error; a value
\* other than github and oci is reported as an error before a client is
\* requested, and the process never crashes.
C29_RemoteNeverCrashes ==
    (last # NoResult /\ last.mode = "stable") =>
        /\ ~Crashed
        /\ last.err = "" => last.metadata # ZeroMetaData
        /\ last.remote \notin {"github", "oci"} => (last.err # "" /\ ~last.listed)

\* create -m stable --remote s3 crashed before any remote was listed
C29_CrashOnOtherRemote ==
    /\ Crashed
    /\ last.remote = "s3"
    /\ ~last.listed
    /\ last.metadata = ZeroMetaData

\* with github and oci the invocation ends with metadata or an error
C29_KnownRemotesEnd ==
    (last # NoResult /\ last.remote \in {"github", "oci"}) =>
        /\ ~Crashed
        /\ last.err = "" => last.metadata # ZeroMetaData

----------------------------------------------------------------------------
(* The component versions along a chain of stable releases.                *)

\* the number of a version v<n>
VersionNumber(version) == IF version = <<>> THEN 0 ELSE Atoi(Tail(version))

\* metadata.yaml of the k-th release of the chain
ChainMetaData(k) == UnmarshalMetaData(oci[ChainName(V(k))].metadata)

\* C30: along a sequence of successful, published stable releases that
\* starts with the first release (all three versions v1), the cluster addon
\* version and the node image version are each at least 1 and at most the
\* cluster stack version, and no component's version decreases from one
\* release to the next.
C30_ComponentsWithinStackVersion ==
    /\ \A k \in 1..Len(hist) :
          /\ ChainName(V(k)) \in DOMAIN oci
          /\ VersionNumber(ChainMetaData(k).clusterStack) = k
          /\ VersionNumber(ChainMetaData(k).clusterAddon) \in 1..k
          /\ VersionNumber(ChainMetaData(k).nodeImage) \in 1..k
    /\ Len(hist) >= 1 =>
          /\ ChainMetaData(1).clusterStack = V(1)
          /\ ChainMetaData(1).clusterAddon = V(1)
          /\ ChainMetaData(1).nodeImage = V(1)
    /\ \A k \in 1..(Len(hist) - 1) :
          /\ VersionNumber(ChainMetaData(k).clusterStack)
                 <= VersionNumber(ChainMetaData(k + 1).clusterStack)
          /\ VersionNumber(ChainMetaData(k).clusterAddon)
                 <= VersionNumber(ChainMetaData(k + 1).clusterAddon)
          /\ VersionNumber(ChainMetaData(k).nodeImage)
                 <= VersionNumber(ChainMetaData(k + 1).nodeImage)

\* the third release of a chain: the cluster addon is still v1, the node
\* image went with the cluster stack to v3
C30_Witness ==
    /\ Len(hist) = 3
    /\ ChainName(V(3)) \in DOMAIN oci
    /\ ChainMetaData(3).clusterStack = V(3)
    /\ ChainMetaData(3).clusterAddon = V(1)
    /\ ChainMetaData(3).nodeImage = V(3)

\* the third release of a chain: the node image is still v1
C30_WitnessNodeImageBehind ==
    /\ Len(hist) = 3
    /\ ChainName(V(3)) \in DOMAIN oci
    /\ ChainMetaData(3).nodeImage = V(1)
    /\ ChainMetaData(3).clusterAddon = V(3)

====
